---- MODULE Spec2Model ----
(***************************************************************************)
(* Model of contentful-batch-migrator: the export splitter                 *)
(* (bin/split.js), the import driver with its state file (bin/import.js,   *)
(* import-batches.js), the resume coordinator (bin/resume.js), the         *)
(* token-bucket rate limiter (bin/rateLimiter.js) and the draft cleanup    *)
(* (bin/cleanup-drafts.js).                                                *)
(*                                                                         *)
(* Nine specifications share this module:                                  *)
(*   Spec       the operator's commands (split, import, resume, kill) over *)
(*              the manifest and the persisted import state;               *)
(*   SpecSplit  splitExport applied to bounded exports;                    *)
(*   SpecRL     one RateLimiter used by a caller that awaits each call;    *)
(*   SpecImport the remote calls of importBatch and its rate limiter;      *)
(*   SpecSave   saveState at the level of the content of the state file;   *)
(*   SpecConc   callers that share one RateLimiter and do not await one    *)
(*              another;                                                   *)
(*   SpecItem   the remote calls importBatch makes for one item, under     *)
(*              every setting of the import options;                       *)
(*   SpecRun    one uninterrupted import run step by step, with weak       *)
(*              fairness of its steps;                                     *)
(*   SpecClean  cleanup-drafts applied to bounded exports.                 *)
(* Strings made of digits ("01", "12") are sequences of digits, so that    *)
(* padStart and parseInt are computed, not assumed to be inverse.          *)
(* Token counts are exact rationals kept as integers (see Scale).          *)
(***************************************************************************)
EXTENDS Integers, Sequences, FiniteSets, TLC

VARIABLES
  \* ---- Spec: driver / resume / state file ----
  manifest,        \* manifest.json: [exists, totalBatches]
  fileExists,      \* import-state.json exists
  file,            \* its parsed content (FreshState(0) while it does not exist)
  state,           \* the running driver's in-memory state object
  pc,              \* "idle" | "loop" | "attempt" | "delay" | "summary" | "resume_wait"
  i,               \* the driver's for-loop variable
  retries,         \* the driver's retry counter for batch i
  successCount,
  failureCount,
  startFromBatch,  \* the start batch of the current (or last) driver run
  cmd,             \* the command started last: "none" | "split" | "import" | "resume"
  exitCode,        \* exit status of the last finished process (-1: none yet)
  maxRetries,      \* importOptions.maxRetries
  runs,            \* commands started so far; also the date, one tick per command
  attempts,        \* importBatch calls made for batch i in this run
  invoked,         \* the step just taken called importBatch
  saved,           \* the step just taken called saveState
  \* ---- SpecSplit: splitExport ----
  spc,             \* "off" | "batches" | "orphans" | "manifest" | "done"
  exportData,      \* the source export
  batchSize,
  batchIndex,      \* the for-loop variable of splitExport
  processedEntries,
  outBatches,      \* batch-NN/exported-space.json, in batch order
  outManifest,     \* manifest.json as written by splitExport
  \* ---- SpecRL: RateLimiter ----
  rl,              \* the RateLimiter object
  rpc,             \* position of the caller inside throttle
  clock,           \* Date.now() in ms
  opsStarted,      \* operations that began executing (fn() called)
  firstAdmit,      \* time the first operation was admitted (-1: none)
  lastAdmit,       \* time the latest operation was admitted (-1: none)
  last429,         \* time of the latest 429 error (-1: none)
  calls,           \* throttle calls issued so far
  outcome,         \* how the latest finished throttle call ended: "none" | "returned" | "raised"
  \* ---- SpecImport: importBatch (it also uses rl and clock) ----
  bpc,             \* position inside importBatch: "off" | "idle" | "getSpace" | ...
  enabled,         \* rateLimits.enabled
  plan,            \* the items importBatch has still to import, in order
  pending,         \* remote calls the running closure has still to make
  remoteCalls,     \* remote calls issued so far by this importBatch call
  admissions,      \* throttle calls of this importBatch call that got their tokens
  admitTimes,      \* the times of all admissions of the run, in order
  batchCalls,      \* importBatch calls made so far in the run
  batchInput,      \* the arguments of the call: [isFirstBatch, batchData]
  givenUp,         \* items of this call whose error was logged and dropped
  result,          \* the latest importBatch call: "none" | "running" | "returned" | "threw"
  rejected,        \* the remote call that rejected in the step just taken ("none": none)
  \* ---- SpecSave: saveState at the level of the file's content ----
  disk,            \* the content of import-state.json, a sequence of JSON members
  writing,         \* what fs.writeFileSync has still to write
  readResult,      \* what the latest loadState got: "none" | "ok" | "SyntaxError"
  \* ---- SpecConc: callers that share a RateLimiter without awaiting one another ----
  cpc,             \* position of each caller inside throttle
  wake,            \* the time at which each waiting caller's timer fires
  \* ---- SpecItem: the remote calls importBatch makes for one item ----
  ipc,             \* position inside the loop body of the item
  opts,            \* importOptions
  itemKind,        \* "contentType" | "asset" | "entry"
  trace,           \* the remote calls issued for the item, in order
  pollAttempts,    \* 'attempts' of the asset's polling loop
  fullyProcessed,  \* 'fullyProcessed' of the asset's polling loop
  \* ---- SpecRun: one pass of the driver's while loop, step by step ----
  lpc,             \* position inside the pass: "off" | "backoff" | "call" | "items"
  sleeps,          \* the backoff sleeps made so far for the current batch, in order
  \* ---- SpecClean: cleanup-drafts (it reads its export into exportData) ----
  clpc,            \* position inside the script: "off" | "read" | "filtered" | "written"
  cleanedData      \* the cleaned export

driverVars == <<manifest, fileExists, file, state, pc, i, retries, successCount,
                failureCount, startFromBatch, cmd, exitCode, maxRetries,
                runs, attempts, invoked, saved>>
splitVars == <<spc, exportData, batchSize, batchIndex, processedEntries,
               outBatches, outManifest>>
rlVars == <<rl, rpc, clock, opsStarted, firstAdmit, lastAdmit, last429, calls,
            outcome>>
importVars == <<bpc, enabled, plan, pending, remoteCalls, admissions, admitTimes,
                batchCalls, batchInput, givenUp, result, rejected>>
saveVars == <<disk, writing, readResult>>
concVars == <<cpc, wake>>
itemVars == <<ipc, opts, itemKind, trace, pollAttempts, fullyProcessed>>
runVars == <<lpc, sleeps>>
cleanVars == <<clpc, cleanedData>>
vars == <<driverVars, splitVars, rlVars, importVars, saveVars, concVars, itemVars,
          runVars, cleanVars>>

(***************************************************************************)
(* Bounds                                                                  *)
(***************************************************************************)
MaxBatches == 2
MaxRetriesBound == 2
MaxRuns == 3
MaxAssets == 3
MaxEntries == 2
MaxBatchSize == 2
MaxCalls == 3
MaxRPS == 3
HourBudget == 3
MaxBatchCalls == 2

(***************************************************************************)
(* Generic helpers                                                         *)
(***************************************************************************)
Range(s) == {s[k] : k \in 1..Len(s)}

Max(S) == CHOOSE x \in S : \A y \in S : x >= y

\* Number.prototype.toString / String(n) for n >= 0, as a sequence of digits
RECURSIVE ToStr(_)
ToStr(n) ==
  IF n < 10 THEN <<n>> ELSE Append(ToStr(n \div 10), n % 10)

\* String.prototype.padStart(len, fill)
RECURSIVE PadStart(_, _, _)
PadStart(s, len, fill) ==
  IF Len(s) >= len THEN s ELSE PadStart(<<fill>> \o s, len, fill)

\* parseInt(s, 10) of a string of digits
RECURSIVE ParseInt(_)
ParseInt(s) ==
  IF Len(s) = 0 THEN 0
  ELSE 10 * ParseInt(SubSeq(s, 1, Len(s) - 1)) + s[Len(s)]

\* String(i).padStart(2, '0')
BatchNum(n) == PadStart(ToStr(n), 2, 0)

(***************************************************************************)
(* Migration state (import-state.json) and the driver's updates of it      *)
(***************************************************************************)
\* currentBatch: null
Null == <<>>

\* error.message of the error thrown by the k-th importBatch call for a batch
ErrorMessage(k) == <<"import failed, call", k>>

\* the object loadState returns when there is no state file
FreshState(t) ==
  [startedAt |-> t, completedBatches |-> <<>>, failedBatches |-> <<>>,
   currentBatch |-> Null]

\* mutant: the state file is ignored and a fresh state is always returned
LoadStateAlwaysFresh(exists, f, t) ==
  FreshState(t)

\* loadState()
LoadState(exists, f, t) ==
  IF exists THEN f ELSE FreshState(t)

\* mutant: the completed-set check never matches
IsCompletedNever(st, b) ==
  FALSE

\* state.completedBatches.includes(batchNum)
IsCompleted(st, b) ==
  \E k \in 1..Len(st.completedBatches) : st.completedBatches[k] = b

\* mutant: the batch is not marked as the current one
MarkCurrentOmitted(st, b) ==
  st

\* state.currentBatch = batchNum
MarkCurrent(st, b) ==
  [st EXCEPT !.currentBatch = b]

\* state.completedBatches.push(batchNum); state.currentBatch = null
MarkCompleted(st, b) ==
  [st EXCEPT !.completedBatches = Append(@, b), !.currentBatch = Null]

\* state.failedBatches.push({batch, error, timestamp}); state.currentBatch = null
MarkFailed(st, b, err, t) ==
  [st EXCEPT !.failedBatches =
               Append(@, [batch |-> b, error |-> err, timestamp |-> t]),
             !.currentBatch = Null]

\* mutant: the loop goes on until importBatch returns, whatever the ceiling
WhileCondNoCeiling(r, m, success) ==
  ~success

\* mutant: the loop condition is off by one (retries < maxRetries)
WhileCondOffByOne(r, m, success) ==
  r < m /\ ~success

\* while (retries <= importOptions.maxRetries && !success)
WhileCond(r, m, success) ==
  r <= m /\ ~success

\* mutant: the retry ceiling is never found exceeded
ExhaustedNever(r, m) ==
  FALSE

\* if (retries > importOptions.maxRetries)
Exhausted(r, m) ==
  r > m

\* mutant: the driver exits with status 0 whatever the failure count
ExitStatusAlwaysZero(fc) ==
  0

\* process.exit(1) if (failureCount > 0), a normal end otherwise
ExitStatus(fc) ==
  IF fc > 0 THEN 1 ELSE 0

\* mutant: the manifest is taken to be there without a look
ManifestFoundAlways(m) ==
  TRUE

\* fs.existsSync(manifestPath)
ManifestFound(m) ==
  m.exists

\* the values a finished process leaves in the driver's local variables
ProcessGone ==
  /\ state' = FreshState(0)
  /\ i' = 0
  /\ retries' = 0
  /\ successCount' = 0
  /\ failureCount' = 0
  /\ attempts' = 0

\* saveState(state): the whole file is rewritten with the in-memory object
SaveState(st) ==
  /\ file' = st
  /\ fileExists' = TRUE
  /\ saved' = TRUE

(***************************************************************************)
(* The operator's commands                                                 *)
(***************************************************************************)
\* npm run split: splitExport removes the output directory, the state file
\* with it, and writes the batches and a new manifest
RunSplit ==
  /\ pc = "idle"
  /\ runs < MaxRuns
  /\ runs' = runs + 1
  /\ \E t \in 0..MaxBatches :
       manifest' = [exists |-> TRUE, totalBatches |-> t]
  /\ fileExists' = FALSE
  /\ file' = FreshState(0)
  /\ cmd' = "split"
  /\ exitCode' = 0
  /\ UNCHANGED <<state, pc, i, retries, successCount, failureCount,
                 startFromBatch, maxRetries, attempts>>
  /\ saved' = FALSE
  /\ invoked' = FALSE
  /\ UNCHANGED <<splitVars, rlVars, importVars, saveVars, concVars, itemVars, runVars,
                 cleanVars>>

\* npm run import without a manifest: fatal error, exit 1
ImportNoManifest ==
  /\ pc = "idle"
  /\ runs < MaxRuns
  /\ ~ManifestFound(manifest)
  /\ runs' = runs + 1
  /\ exitCode' = 1
  /\ cmd' = "import"
  /\ UNCHANGED <<manifest, fileExists, file, state, pc, i, retries,
                 successCount, failureCount, startFromBatch, maxRetries, attempts>>
  /\ saved' = FALSE
  /\ invoked' = FALSE
  /\ UNCHANGED <<splitVars, rlVars, importVars, saveVars, concVars, itemVars, runVars,
                 cleanVars>>

\* the head of importAllBatches: manifest read, state loaded, loop entered
EnterDriver(n, date) ==
  /\ state' = LoadState(fileExists, file, date)
  /\ i' = n
  /\ retries' = 0
  /\ successCount' = 0
  /\ failureCount' = 0
  /\ attempts' = 0
  /\ pc' = "loop"

\* npm run import [--start-from n]
StartImport ==
  /\ pc = "idle"
  /\ runs < MaxRuns
  /\ ManifestFound(manifest)
  /\ \E n \in 1..(MaxBatches + 1) :
       /\ startFromBatch' = n
       /\ EnterDriver(n, runs + 1)
  /\ runs' = runs + 1
  /\ cmd' = "import"
  /\ exitCode' = -1
  /\ UNCHANGED <<manifest, fileExists, file, maxRetries>>
  /\ saved' = FALSE
  /\ invoked' = FALSE
  /\ UNCHANGED <<splitVars, rlVars, importVars, saveVars, concVars, itemVars, runVars,
                 cleanVars>>

\* for-loop: batch i is already completed, continue
Skip ==
  /\ pc = "loop"
  /\ i <= manifest.totalBatches
  /\ IsCompleted(state, BatchNum(i))
  /\ i' = i + 1
  /\ UNCHANGED <<manifest, fileExists, file, state, pc, retries, successCount,
                 failureCount, startFromBatch, cmd, exitCode, maxRetries,
                 runs, attempts>>
  /\ saved' = FALSE
  /\ invoked' = FALSE
  /\ UNCHANGED <<splitVars, rlVars, importVars, saveVars, concVars, itemVars, runVars,
                 cleanVars>>

\* for-loop: batch i becomes the current batch and the state is saved
BeginBatch ==
  /\ pc = "loop"
  /\ i <= manifest.totalBatches
  /\ ~IsCompleted(state, BatchNum(i))
  /\ state' = MarkCurrent(state, BatchNum(i))
  /\ SaveState(state')
  /\ retries' = 0
  /\ attempts' = 0
  /\ invoked' = FALSE
  /\ IF WhileCond(0, maxRetries, FALSE)
       THEN pc' = "attempt" /\ i' = i
       ELSE pc' = "loop" /\ i' = i + 1
  /\ UNCHANGED <<manifest, successCount, failureCount, startFromBatch,
                 cmd, exitCode, maxRetries, runs>>
  /\ UNCHANGED <<splitVars, rlVars, importVars, saveVars, concVars, itemVars, runVars,
                 cleanVars>>

\* what the driver does when importBatch returns
AttemptReturns ==
  /\ pc = "attempt"
  /\ attempts' = attempts + 1
  /\ invoked' = TRUE
  /\ successCount' = successCount + 1
  /\ state' = MarkCompleted(state, BatchNum(i))
  /\ SaveState(state')
  /\ IF i < manifest.totalBatches
       THEN pc' = "delay" /\ i' = i
       ELSE pc' = "loop" /\ i' = i + 1
  /\ UNCHANGED <<manifest, retries, failureCount, startFromBatch, cmd,
                 exitCode, maxRetries, runs>>

\* one pass of the while loop in which importBatch returns
AttemptSuccess ==
  /\ AttemptReturns
  /\ UNCHANGED <<splitVars, rlVars, importVars, saveVars, concVars, itemVars, runVars,
                 cleanVars>>

\* what the driver does when importBatch throws
AttemptThrows ==
  /\ pc = "attempt"
  /\ attempts' = attempts + 1
  /\ invoked' = TRUE
  /\ retries' = retries + 1
  /\ LET err == ErrorMessage(attempts') IN
       IF Exhausted(retries', maxRetries)
         THEN /\ state' = MarkFailed(state, BatchNum(i), err, runs)
              /\ SaveState(state')
              /\ failureCount' = failureCount + 1
         ELSE /\ UNCHANGED <<state, file, fileExists, failureCount>>
              /\ saved' = FALSE
  /\ IF WhileCond(retries', maxRetries, FALSE)
       THEN pc' = "attempt" /\ i' = i
       ELSE pc' = "loop" /\ i' = i + 1
  /\ UNCHANGED <<manifest, successCount, startFromBatch, cmd, exitCode,
                 maxRetries, runs>>

\* one pass of the while loop in which importBatch throws
AttemptFail ==
  /\ AttemptThrows
  /\ UNCHANGED <<splitVars, rlVars, importVars, saveVars, concVars, itemVars, runVars,
                 cleanVars>>

\* await sleep(importOptions.delayBetweenBatches) after a completed batch
Delay ==
  /\ pc = "delay"
  /\ i' = i + 1
  /\ pc' = "loop"
  /\ UNCHANGED <<manifest, fileExists, file, state, retries, successCount,
                 failureCount, startFromBatch, cmd, exitCode, maxRetries,
                 runs, attempts>>
  /\ saved' = FALSE
  /\ invoked' = FALSE
  /\ UNCHANGED <<splitVars, rlVars, importVars, saveVars, concVars, itemVars, runVars,
                 cleanVars>>

\* the for-loop is over: the import summary is printed
LoopEnd ==
  /\ pc = "loop"
  /\ i > manifest.totalBatches
  /\ pc' = "summary"
  /\ UNCHANGED <<manifest, fileExists, file, state, i, retries, successCount,
                 failureCount, startFromBatch, cmd, exitCode, maxRetries,
                 runs, attempts>>
  /\ saved' = FALSE
  /\ invoked' = FALSE
  /\ UNCHANGED <<splitVars, rlVars, importVars, saveVars, concVars, itemVars, runVars,
                 cleanVars>>

\* process.exit(1) when a batch failed, exit 0 otherwise
Exit ==
  /\ pc = "summary"
  /\ exitCode' = ExitStatus(failureCount)
  /\ pc' = "idle"
  /\ ProcessGone
  /\ UNCHANGED <<manifest, fileExists, file, startFromBatch, cmd,
                 maxRetries, runs>>
  /\ saved' = FALSE
  /\ invoked' = FALSE
  /\ UNCHANGED <<splitVars, rlVars, importVars, saveVars, concVars, itemVars, runVars,
                 cleanVars>>

\* the operator interrupts the running process (Ctrl+C)
Kill ==
  /\ pc # "idle"
  /\ exitCode' = 130
  /\ pc' = "idle"
  /\ ProcessGone
  /\ UNCHANGED <<manifest, fileExists, file, startFromBatch, cmd,
                 maxRetries, runs>>
  /\ saved' = FALSE
  /\ invoked' = FALSE
  /\ UNCHANGED <<splitVars, rlVars, importVars, saveVars, concVars, itemVars, runVars,
                 cleanVars>>

(***************************************************************************)
(* Resume coordinator (bin/resume.js)                                      *)
(***************************************************************************)
\* insert x into the ascending sequence s
RECURSIVE InsertAsc(_, _)
InsertAsc(x, s) ==
  IF Len(s) = 0 THEN <<x>>
  ELSE IF x <= s[1] THEN <<x>> \o s
  ELSE <<s[1]>> \o InsertAsc(x, Tail(s))

\* mutant: the failed batches are taken in the order they were recorded
SortOmitted(s) ==
  s

\* Array.prototype.sort((a, b) => a - b)
RECURSIVE SortAsc(_)
SortAsc(s) ==
  IF Len(s) = 0 THEN <<>> ELSE InsertAsc(s[1], SortAsc(Tail(s)))

\* state.failedBatches.map(fb => parseInt(fb.batch, 10))
FailedNumbers(st) ==
  [k \in 1..Len(st.failedBatches) |-> ParseInt(st.failedBatches[k].batch)]

\* mutant: the number of completed batches is taken for the highest one
MaxCompletedIsCount(st) ==
  Len(st.completedBatches)

\* Math.max(0, ...state.completedBatches.map(b => parseInt(b, 10)))
MaxCompleted(st) ==
  Max({0} \cup {ParseInt(st.completedBatches[k]) :
                  k \in 1..Len(st.completedBatches)})

\* mutant: the in-flight marker is not consulted
ResumeStrategyIgnoresCurrent(st) ==
  IF Len(st.failedBatches) > 0 THEN "failed" ELSE "next"

\* resumeStrategy
ResumeStrategy(st) ==
  IF st.currentBatch # Null THEN "current"
  ELSE IF Len(st.failedBatches) > 0 THEN "failed"
  ELSE "next"

\* mutant: the start is always the batch after the highest completed one
ResumeStartFromNext(st) ==
  MaxCompleted(st) + 1

\* startFromBatch as resumeImport computes it
ResumeStartFrom(st) ==
  IF ResumeStrategy(st) = "current" THEN ParseInt(st.currentBatch)
  ELSE IF ResumeStrategy(st) = "failed" THEN SortAsc(FailedNumbers(st))[1]
  ELSE MaxCompleted(st) + 1

\* the 'All batches have been completed!' exit
ResumeNothingToDo(st, total) ==
  ResumeStrategy(st) = "next" /\ MaxCompleted(st) >= total

\* npm run resume without a state file, or without a manifest: exit 1
ResumeFatal ==
  /\ pc = "idle"
  /\ runs < MaxRuns
  /\ ~fileExists \/ ~manifest.exists
  /\ runs' = runs + 1
  /\ exitCode' = 1
  /\ cmd' = "resume"
  /\ UNCHANGED <<manifest, fileExists, file, state, pc, i, retries,
                 successCount, failureCount, startFromBatch, maxRetries, attempts>>
  /\ saved' = FALSE
  /\ invoked' = FALSE
  /\ UNCHANGED <<splitVars, rlVars, importVars, saveVars, concVars, itemVars, runVars,
                 cleanVars>>

\* npm run resume when every batch is completed: exit 0, nothing is run
ResumeComplete ==
  /\ pc = "idle"
  /\ runs < MaxRuns
  /\ fileExists /\ manifest.exists
  /\ ResumeNothingToDo(file, manifest.totalBatches)
  /\ runs' = runs + 1
  /\ exitCode' = 0
  /\ cmd' = "resume"
  /\ UNCHANGED <<manifest, fileExists, file, state, pc, i, retries,
                 successCount, failureCount, startFromBatch, maxRetries, attempts>>
  /\ saved' = FALSE
  /\ invoked' = FALSE
  /\ UNCHANGED <<splitVars, rlVars, importVars, saveVars, concVars, itemVars, runVars,
                 cleanVars>>

\* npm run resume: the restart point is chosen, then the 5 second pause
ResumeDecide ==
  /\ pc = "idle"
  /\ runs < MaxRuns
  /\ fileExists /\ manifest.exists
  /\ ~ResumeNothingToDo(file, manifest.totalBatches)
  /\ startFromBatch' = ResumeStartFrom(file)
  /\ pc' = "resume_wait"
  /\ runs' = runs + 1
  /\ exitCode' = -1
  /\ cmd' = "resume"
  /\ UNCHANGED <<manifest, fileExists, file, state, i, retries, successCount,
                 failureCount, maxRetries, attempts>>
  /\ saved' = FALSE
  /\ invoked' = FALSE
  /\ UNCHANGED <<splitVars, rlVars, importVars, saveVars, concVars, itemVars, runVars,
                 cleanVars>>

\* spawn('node', ['bin/import.js', '--start-from', startFromBatch.toString()])
ResumeSpawn ==
  /\ pc = "resume_wait"
  /\ EnterDriver(ParseInt(ToStr(startFromBatch)), runs)
  /\ UNCHANGED <<manifest, fileExists, file, startFromBatch, cmd,
                 exitCode, maxRetries, runs>>
  /\ saved' = FALSE
  /\ invoked' = FALSE
  /\ UNCHANGED <<splitVars, rlVars, importVars, saveVars, concVars, itemVars, runVars,
                 cleanVars>>

Next ==
  \/ RunSplit
  \/ ImportNoManifest
  \/ StartImport
  \/ Skip
  \/ BeginBatch
  \/ AttemptSuccess
  \/ AttemptFail
  \/ Delay
  \/ LoopEnd
  \/ Exit
  \/ Kill
  \/ ResumeFatal
  \/ ResumeComplete
  \/ ResumeDecide
  \/ ResumeSpawn

\* no import was started yet; an earlier split may have left its manifest
InitDriver ==
  /\ manifest \in {[exists |-> FALSE, totalBatches |-> 0]}
                  \cup {[exists |-> TRUE, totalBatches |-> t] : t \in 0..MaxBatches}
  /\ fileExists = FALSE
  /\ file = FreshState(0)
  /\ state = FreshState(0)
  /\ pc = "idle"
  /\ i = 0
  /\ retries = 0
  /\ successCount = 0
  /\ failureCount = 0
  /\ startFromBatch = 0
  /\ cmd = "none"
  /\ exitCode = -1
  /\ maxRetries \in 0..MaxRetriesBound
  /\ runs = 0
  /\ attempts = 0
  /\ invoked = FALSE
  /\ saved = FALSE

\* the splitter and the rate limiter are not running
SplitOff ==
  /\ spc = "off"
  /\ exportData = <<>>
  /\ batchSize = 0
  /\ batchIndex = 0
  /\ processedEntries = {}
  /\ outBatches = <<>>
  /\ outManifest = <<>>

RLOff ==
  /\ rl = <<>>
  /\ rpc = "off"
  /\ clock = 0
  /\ opsStarted = 0
  /\ firstAdmit = -1
  /\ lastAdmit = -1
  /\ last429 = -1
  /\ calls = 0
  /\ outcome = "none"

\* no importBatch call is modelled
ImportOff ==
  /\ bpc = "off"
  /\ enabled = FALSE
  /\ plan = <<>>
  /\ pending = 0
  /\ remoteCalls = 0
  /\ admissions = 0
  /\ admitTimes = <<>>
  /\ batchCalls = 0
  /\ batchInput = <<>>
  /\ givenUp = 0
  /\ result = "none"
  /\ rejected = "none"

\* the content of the state file is not modelled
SaveOff ==
  /\ disk = <<>>
  /\ writing = <<>>
  /\ readResult = "none"

\* no single item is followed
ItemOff ==
  /\ ipc = "off"
  /\ opts = <<>>
  /\ itemKind = "none"
  /\ trace = <<>>
  /\ pollAttempts = 0
  /\ fullyProcessed = FALSE

\* no concurrent callers are modelled
ConcOff ==
  /\ cpc = <<>>
  /\ wake = <<>>

\* cleanup-drafts is not running
CleanOff ==
  /\ clpc = "off"
  /\ cleanedData = <<>>

\* the passes of the while loop are taken as single steps
RunOff ==
  /\ lpc = "off"
  /\ sleeps = <<>>

Init ==
  InitDriver /\ SplitOff /\ RLOff /\ ImportOff /\ SaveOff /\ ConcOff /\ ItemOff /\ RunOff
    /\ CleanOff

Spec == Init /\ [][Next]_vars

(***************************************************************************)
(* Properties of the driver and of the resume coordinator (Spec)           *)
(***************************************************************************)
\* batch ids of the persisted completedBatches / failedBatches
PersistedCompleted == Range(file.completedBatches)

PersistedFailed == {file.failedBatches[k].batch : k \in 1..Len(file.failedBatches)}

\* a step that starts the resume command
ResumeCommandStep ==
  pc = "idle" /\ runs' = runs + 1 /\ cmd' = "resume"

\* C2 Idempotent resume: when the driver loop stands at a batch whose id is
\* in completedBatches, the step it takes calls neither importBatch nor
\* saveState, leaves the in-memory state and the state file as they are, and
\* moves on to the next batch number, whatever the start batch was.
C2_IdempotentResume ==
  [][(/\ pc = "loop"
      /\ i <= manifest.totalBatches
      /\ BatchNum(i) \in Range(state.completedBatches))
     => (/\ ~invoked'
         /\ ~saved'
         /\ file' = file
         /\ fileExists' = fileExists
         /\ \/ pc' = "idle"
            \/ (state' = state /\ pc' = "loop" /\ i' = i + 1))]_vars

\* a completed batch has just been skipped by a run that started below it
C2_Witness ==
  /\ pc = "loop"
  /\ i > startFromBatch
  /\ i - 1 <= manifest.totalBatches
  /\ BatchNum(i - 1) \in Range(state.completedBatches)
  /\ successCount = 0
  /\ failureCount = 0
  /\ ~saved
  /\ ~invoked

\* C4 Retry ceiling: an importBatch call that throws is followed by another
\* call for the same batch, with the state file untouched, as long as fewer
\* than maxRetries + 1 calls were made; the (maxRetries + 1)-th failing call
\* appends {batch, error, timestamp} to failedBatches, saves, and the driver
\* goes on to the next batch number.
C4_RetryCeiling ==
  [][(/\ pc = "attempt"
      /\ invoked'
      /\ file'.completedBatches = file.completedBatches)
     => IF attempts' <= maxRetries
          THEN pc' = "attempt" /\ i' = i /\ file' = file /\ ~saved'
          ELSE /\ attempts' = maxRetries + 1
               /\ saved'
               /\ file'.failedBatches =
                    Append(file.failedBatches,
                           [batch |-> BatchNum(i),
                            error |-> ErrorMessage(maxRetries + 1),
                            timestamp |-> runs])
               /\ file'.currentBatch = Null
               /\ pc' = "loop"
               /\ i' = i + 1]_vars

\* a batch has just been recorded failed after 1 + maxRetries calls, with at
\* least one retry, and a next batch exists
C4_Witness ==
  /\ pc = "loop"
  /\ invoked
  /\ saved
  /\ maxRetries >= 1
  /\ attempts = maxRetries + 1
  /\ failureCount >= 1
  /\ BatchNum(i - 1) \in PersistedFailed
  /\ i <= manifest.totalBatches

\* C5 No batch is silently dropped (as claimed): at the summary of a run
\* started at batch 1, every batch of the manifest is in exactly one of
\* completedBatches and failedBatches, and currentBatch is null.
C5_ExactlyOneOutcome ==
  (pc = "summary" /\ startFromBatch = 1)
  => /\ \A b \in 1..manifest.totalBatches :
          (BatchNum(b) \in PersistedCompleted) # (BatchNum(b) \in PersistedFailed)
     /\ file.currentBatch = Null

\* C6 (as claimed): no batch id is listed both in completedBatches and in
\* failedBatches of the persisted state.
C6_NeverCompletedAndFailed ==
  PersistedCompleted \cap PersistedFailed = {}

C9_ResumeRule1 ==
  [][/\ (ResumeCommandStep /\ fileExists /\ manifest.exists
         /\ file.currentBatch # Null)
        => /\ pc' = "resume_wait"
           /\ BatchNum(startFromBatch') = file.currentBatch
     /\ (pc = "resume_wait" /\ pc' = "loop" /\ state'.currentBatch # Null)
        => BatchNum(i') = state'.currentBatch]_vars

\* the driver spawned by resume stands at the in-flight batch 2, batch 1
\* being completed
C9_Witness ==
  /\ cmd = "resume"
  /\ pc = "loop"
  /\ state.completedBatches = <<BatchNum(1)>>
  /\ state.failedBatches = <<>>
  /\ state.currentBatch = BatchNum(2)
  /\ i = 2

\* C10 Resume rule 2: a resume command that finds currentBatch null and
\* failedBatches non-empty chooses the lowest batch number that occurs in
\* failedBatches, and the driver it spawns enters its loop at that number.
C10_ResumeRule2 ==
  [][/\ (ResumeCommandStep /\ fileExists /\ manifest.exists
         /\ file.currentBatch = Null /\ Len(file.failedBatches) > 0)
        => /\ pc' = "resume_wait"
           /\ BatchNum(startFromBatch') \in PersistedFailed
           /\ \A b \in 0..(startFromBatch' - 1) :
                BatchNum(b) \notin PersistedFailed
     /\ (/\ pc = "resume_wait" /\ pc' = "loop"
         /\ state'.currentBatch = Null /\ Len(state'.failedBatches) > 0)
        => i' = startFromBatch]_vars

\* the driver spawned by resume stands at batch 1, the lowest failed batch,
\* which was recorded after the failure of batch 2
C10_Witness ==
  /\ cmd = "resume"
  /\ pc = "loop"
  /\ i = 1
  /\ startFromBatch = 1
  /\ state.currentBatch = Null
  /\ Len(state.failedBatches) >= 2
  /\ state.failedBatches[1].batch = BatchNum(2)
  /\ state.failedBatches[2].batch = BatchNum(1)

\* h is the highest batch number in the persisted completedBatches (0: none)
HighestPersistedCompleted(h) ==
  /\ h = 0 \/ BatchNum(h) \in PersistedCompleted
  /\ \A b \in (h + 1)..(MaxBatches + 1) : BatchNum(b) \notin PersistedCompleted

\* C11 Resume rules 3 and 4: a resume command that finds currentBatch null
\* and failedBatches empty chooses one past the highest completed batch
\* number (1 when none is completed) and the driver it spawns enters its loop
\* there; when that number exceeds totalBatches the command exits with
\* status 0, starts no driver and leaves the state file and every batch
\* untouched.
C11_ResumeRules34 ==
  [][/\ (ResumeCommandStep /\ fileExists /\ manifest.exists
         /\ file.currentBatch = Null /\ Len(file.failedBatches) = 0)
        => \E h \in 0..MaxBatches :
             /\ HighestPersistedCompleted(h)
             /\ IF h + 1 > manifest.totalBatches
                  THEN /\ pc' = "idle"
                       /\ exitCode' = 0
                       /\ file' = file
                       /\ fileExists'
                       /\ state' = state
                       /\ ~invoked'
                       /\ ~saved'
                  ELSE /\ pc' = "resume_wait"
                       /\ startFromBatch' = h + 1
                       /\ file' = file
     /\ (/\ pc = "resume_wait" /\ pc' = "loop"
         /\ state'.currentBatch = Null /\ Len(state'.failedBatches) = 0)
        => i' = startFromBatch]_vars

\* the driver spawned by resume stands at batch 2, batch 1 being the only
\* completed batch, none in flight and none failed
C11_Witness ==
  /\ cmd = "resume"
  /\ pc = "loop"
  /\ i = 2
  /\ startFromBatch = 2
  /\ state.completedBatches = <<BatchNum(1)>>
  /\ state.failedBatches = <<>>
  /\ state.currentBatch = Null
  /\ manifest.totalBatches >= 2

\* C19 (as claimed): no command deletes or resets an existing state file;
\* the completed and the failed batches it records are still recorded after
\* every step.
C19_StateNeverDeleted ==
  [][fileExists
     => /\ fileExists'
        /\ PersistedCompleted \subseteq Range(file'.completedBatches)
        /\ PersistedFailed
             \subseteq {file'.failedBatches[k].batch :
                          k \in 1..Len(file'.failedBatches)}]_vars

\* C21 Failed run: when the driver ends a run in which a batch exhausted its
\* retries, its exit status is not 0, every batch from the start batch to
\* the last one is recorded completed or failed in the state file, and the
\* file lists every batch the run completed.
C21_FailedRunExit ==
  [][(pc = "summary" /\ pc' = "idle" /\ failureCount > 0)
     => /\ exitCode' # 0
        /\ \A n \in startFromBatch..manifest.totalBatches :
             BatchNum(n) \in Range(file'.completedBatches)
               \cup {file'.failedBatches[k].batch : k \in 1..Len(file'.failedBatches)}
        /\ Range(state.completedBatches) \subseteq Range(file'.completedBatches)
        /\ successCount <= Len(file'.completedBatches)]_vars

\* an import run has ended with status 1 after batch 1 failed and batch 2,
\* the batch after it, completed
C21_Witness ==
  /\ pc = "idle"
  /\ cmd = "import"
  /\ exitCode = 1
  /\ manifest.exists
  /\ file.failedBatches # <<>>
  /\ file.failedBatches[Len(file.failedBatches)].batch = BatchNum(1)
  /\ file.completedBatches = <<BatchNum(2)>>

\* C22 Sequential batches: the driver's batch number never decreases within
\* a run and moves by one; a batch is started (marked current, first
\* attempt pending) only when every batch between the start batch and it is
\* recorded completed or failed; and the driver leaves the attempts of a
\* batch only through the save that records it completed or failed.
C22_SequentialBatches ==
  [][/\ (pc \in {"loop", "attempt", "delay"} /\ pc' # "idle")
        => i' \in {i, i + 1}
     /\ (pc = "loop" /\ pc' = "attempt")
        => /\ i' = i
           /\ state'.currentBatch = BatchNum(i)
           /\ \A n \in startFromBatch..(i - 1) :
                BatchNum(n) \in Range(state.completedBatches) \cup PersistedFailed
     /\ (pc = "attempt" /\ pc' = "attempt")
        => (i' = i /\ state' = state)
     /\ (pc = "attempt" /\ pc' \in {"loop", "delay"})
        => /\ saved'
           /\ file'.currentBatch = Null
           /\ \/ file'.completedBatches = Append(file.completedBatches, BatchNum(i))
              \/ /\ Len(file'.failedBatches) = Len(file.failedBatches) + 1
                 /\ file'.failedBatches[Len(file'.failedBatches)].batch = BatchNum(i)]_vars

\* batch 2 has been started in a run that began at batch 1 and recorded
\* batch 1 as failed
C22_Witness ==
  /\ pc = "attempt"
  /\ i = 2
  /\ startFromBatch = 1
  /\ failureCount = 1
  /\ successCount = 0
  /\ state.currentBatch = BatchNum(2)
  /\ file = state

\* C23 Precondition failures: an import command started without a manifest
\* and a resume command started without a state file end at once with a
\* non-zero status; no batch is attempted, nothing is saved, and the state
\* file is neither created nor changed.
C23_PreconditionFatal ==
  [][(/\ pc = "idle"
      /\ runs' = runs + 1
      /\ \/ (cmd' = "import" /\ ~manifest.exists)
         \/ (cmd' = "resume" /\ ~fileExists))
     => /\ pc' = "idle"
        /\ exitCode' > 0
        /\ ~invoked'
        /\ ~saved'
        /\ fileExists' = fileExists
        /\ file' = file
        /\ manifest' = manifest]_vars

\* a resume command has just ended with status 1 for want of a state file,
\* the manifest being there
C23_Witness ==
  /\ pc = "idle"
  /\ cmd = "resume"
  /\ exitCode = 1
  /\ manifest.exists
  /\ manifest.totalBatches >= 1
  /\ ~fileExists

\* C27 In-flight marker: the step that selects a batch saves it as
\* currentBatch before any importBatch call, with the completed and failed
\* lists as they were; while attempts of the batch are pending the state
\* file names it as currentBatch; an attempt that fails below the ceiling
\* leaves the file untouched; and the save that records the batch completed
\* or failed is the one that sets currentBatch to null.
C27_InFlightMarker ==
  [][/\ (pc = "loop" /\ pc' = "attempt")
        => /\ saved'
           /\ ~invoked'
           /\ fileExists'
           /\ file'.currentBatch = BatchNum(i')
           /\ file'.completedBatches = state.completedBatches
           /\ file'.failedBatches = state.failedBatches
     /\ pc = "attempt"
        => (fileExists /\ file.currentBatch = BatchNum(i))
     /\ (pc = "attempt" /\ pc' = "attempt")
        => (file' = file /\ ~saved' /\ fileExists')
     /\ (pc = "attempt" /\ pc' \in {"loop", "delay"})
        => /\ saved'
           /\ file'.currentBatch = Null
           /\ \/ file'.completedBatches # file.completedBatches
              \/ file'.failedBatches # file.failedBatches]_vars

\* batch 2 is in flight after a failed attempt of it: a retry is pending and
\* the state file still names batch 2 as the current batch
C27_Witness ==
  /\ pc = "attempt"
  /\ i = 2
  /\ attempts = 1
  /\ retries = 1
  /\ invoked
  /\ ~saved
  /\ file.currentBatch = BatchNum(2)
  /\ file.completedBatches = <<BatchNum(1)>>

C29_SuccessfulResumeIsComplete ==
  [][(cmd = "resume" /\ pc = "summary" /\ pc' = "idle" /\ exitCode' = 0)
     => \A b \in 1..manifest.totalBatches :
          BatchNum(b) \in Range(file'.completedBatches)]_vars

(***************************************************************************)
(* splitExport (bin/split.js)                                              *)
(*                                                                         *)
(* An asset is its sys.id (a number); an entry is [id, fields]; a field    *)
(* value is a scalar, a link, or a container (array or object) of values.  *)
(* The copy of the assets' binary files is not modelled.                   *)
(***************************************************************************)
Scalar == [kind |-> "scalar"]

NoFields == [kind |-> "none"]

AssetLink(a) == [kind |-> "link", linkType |-> "Asset", id |-> a]

EntryLink(e) == [kind |-> "link", linkType |-> "Entry", id |-> e]

Container(items) == [kind |-> "container", items |-> items]

\* Set.prototype.add on a set kept in insertion order
AddId(acc, x) ==
  IF \E k \in 1..Len(acc) : acc[k] = x THEN acc ELSE Append(acc, x)

\* traverseFields(obj): the asset ids linked from obj, in order of discovery
RECURSIVE TraverseFields(_, _)
TraverseFields(obj, acc) ==
  IF obj.kind = "link"
    THEN IF obj.linkType = "Asset" THEN AddId(acc, obj.id) ELSE acc
  ELSE IF obj.kind = "container"
    THEN IF Len(obj.items) = 0 THEN acc
         ELSE TraverseFields(Container(Tail(obj.items)),
                             TraverseFields(obj.items[1], acc))
  ELSE acc

\* getAssetReferencesFromEntry(entry)
GetAssetReferencesFromEntry(entry) ==
  IF entry.fields.kind = "none" THEN <<>>
  ELSE TraverseFields(entry.fields, <<>>)

\* Array.prototype.filter: the elements of s at the indices in keep, from
\* index k on, in order
RECURSIVE Filter(_, _, _)
Filter(s, keep, k) ==
  IF k > Len(s) THEN <<>>
  ELSE (IF k \in keep THEN <<s[k]>> ELSE <<>>) \o Filter(s, keep, k + 1)

\* mutant: the assets are not sliced, they all go to one batch
AssetBatchesUnsplit(assets, size, from) ==
  IF Len(assets) = 0 THEN <<>> ELSE <<assets>>

\* the loop 'for (i = 0; i < assets.length; i += batchSize)' with
\* assets.slice(i, i + batchSize)
RECURSIVE AssetBatchesFrom(_, _, _)
AssetBatchesFrom(assets, size, from) ==
  IF from >= Len(assets) THEN <<>>
  ELSE <<SubSeq(assets, from + 1,
                IF from + size <= Len(assets) THEN from + size ELSE Len(assets))>>
       \o AssetBatchesFrom(assets, size, from + size)

AssetBatches == AssetBatchesFrom(exportData.assets, batchSize, 0)

\* mutant: the processed-entries check is missing from the filter
ClaimedByIgnoringProcessed(entry, processed, batchAssetIds) ==
  \E k \in 1..Len(GetAssetReferencesFromEntry(entry)) :
    GetAssetReferencesFromEntry(entry)[k] \in batchAssetIds

\* mutant: an entry is claimed only by a batch that holds all its assets
ClaimedByAllRefs(entry, processed, batchAssetIds) ==
  /\ entry.id \notin processed
  /\ Len(GetAssetReferencesFromEntry(entry)) > 0
  /\ \A k \in 1..Len(GetAssetReferencesFromEntry(entry)) :
       GetAssetReferencesFromEntry(entry)[k] \in batchAssetIds

\* the filter predicate of batchEntries
ClaimedBy(entry, processed, batchAssetIds) ==
  /\ entry.id \notin processed
  /\ \E k \in 1..Len(GetAssetReferencesFromEntry(entry)) :
       GetAssetReferencesFromEntry(entry)[k] \in batchAssetIds

\* batchData of the asset batch with 0-based index bi
BatchData(bi, batchAssets, batchEntries) ==
  [contentTypes     |-> IF bi = 0 THEN exportData.contentTypes ELSE <<>>,
   tags             |-> IF bi = 0 THEN exportData.tags ELSE <<>>,
   locales          |-> IF bi = 0 THEN exportData.locales ELSE <<>>,
   editorInterfaces |-> IF bi = 0 THEN exportData.editorInterfaces ELSE <<>>,
   webhooks         |-> IF bi = 0 THEN exportData.webhooks ELSE <<>>,
   entries          |-> batchEntries,
   assets           |-> batchAssets]

\* orphanBatchData
OrphanBatchData(orphanedEntries) ==
  [contentTypes |-> <<>>, tags |-> <<>>, locales |-> <<>>,
   editorInterfaces |-> <<>>, webhooks |-> <<>>,
   entries |-> orphanedEntries, assets |-> <<>>]

\* fs.writeFileSync(batch-NN/exported-space.json): the directory is named by
\* the padded batch number
WriteBatchFile(files, name, data) ==
  [n \in DOMAIN files \cup {name} |-> IF n = name THEN data ELSE files[n]]

\* one pass of 'for (batchIndex = 0; batchIndex < assetBatches.length; ...)'
ProcessBatch ==
  /\ spc = "batches"
  /\ batchIndex < Len(AssetBatches)
  /\ LET batchAssets == AssetBatches[batchIndex + 1]
         batchAssetIds == Range(batchAssets)
         batchEntries ==
           Filter(exportData.entries,
                  {k \in 1..Len(exportData.entries) :
                     ClaimedBy(exportData.entries[k], processedEntries,
                               batchAssetIds)}, 1)
     IN /\ processedEntries' =
             processedEntries \cup {batchEntries[k].id : k \in 1..Len(batchEntries)}
        /\ outBatches' =
             WriteBatchFile(outBatches, BatchNum(batchIndex + 1),
                            BatchData(batchIndex, batchAssets, batchEntries))
  /\ batchIndex' = batchIndex + 1
  /\ UNCHANGED <<spc, exportData, batchSize, outManifest>>
  /\ UNCHANGED <<driverVars, rlVars, importVars, saveVars, concVars, itemVars, runVars,
                 cleanVars>>

\* mutant: no entry is taken for orphaned
OrphanedEntriesNone ==
  <<>>

\* entries.filter(entry => !processedEntries.has(entry.sys.id))
OrphanedEntries ==
  Filter(exportData.entries,
         {k \in 1..Len(exportData.entries) :
            exportData.entries[k].id \notin processedEntries}, 1)

\* the orphaned entries go to one more batch, if there are any
HandleOrphans ==
  /\ spc = "batches"
  /\ batchIndex >= Len(AssetBatches)
  /\ LET orphanedEntries == OrphanedEntries
     IN outBatches' =
          IF Len(orphanedEntries) > 0
            THEN WriteBatchFile(outBatches, BatchNum(Len(AssetBatches) + 1),
                                OrphanBatchData(orphanedEntries))
            ELSE outBatches
  /\ spc' = "manifest"
  /\ UNCHANGED <<exportData, batchSize, batchIndex, processedEntries, outManifest>>
  /\ UNCHANGED <<driverVars, rlVars, importVars, saveVars, concVars, itemVars, runVars,
                 cleanVars>>

\* manifest.batches entry of batch number n, read back from its file
ManifestEntry(files, n) ==
  [batchNumber     |-> n,
   batchId         |-> BatchNum(n),
   assets          |-> Len(files[BatchNum(n)].assets),
   entries         |-> Len(files[BatchNum(n)].entries),
   hasContentModel |-> Len(files[BatchNum(n)].contentTypes) > 0]

\* manifest.json
WriteManifest ==
  /\ spc = "manifest"
  /\ LET orphanedEntries == OrphanedEntries
         total == Len(AssetBatches) + (IF Len(orphanedEntries) > 0 THEN 1 ELSE 0)
     IN outManifest' =
          [totalBatches |-> total,
           totalAssets  |-> Len(exportData.assets),
           totalEntries |-> Len(exportData.entries),
           batchSize    |-> batchSize,
           batches      |-> [n \in 1..total |-> ManifestEntry(outBatches, n)]]
  /\ spc' = "done"
  /\ UNCHANGED <<exportData, batchSize, batchIndex, processedEntries, outBatches>>
  /\ UNCHANGED <<driverVars, rlVars, importVars, saveVars, concVars, itemVars, runVars,
                 cleanVars>>

\* the fields an entry of a bounded export may have
FieldChoices ==
  {NoFields, Container(<<Container(<<Scalar>>)>>),
   Container(<<Container(<<EntryLink(1)>>)>>)}
  \cup {Container(<<Container(<<AssetLink(a)>>)>>) : a \in 1..MaxAssets}
  \cup UNION {{Container(<<Container(<<Scalar>>),
                            Container(<<Container(<<AssetLink(a), AssetLink(b)>>)>>)>>) :
                  b \in a..MaxAssets} : a \in 1..MaxAssets}

\* an export with assets 1..n in order and the entries 1..Len(fs), entry j
\* having the fields fs[j]
Export(cts, n, fs) ==
  [contentTypes     |-> cts,
   entries          |-> [j \in DOMAIN fs |-> [id |-> j, fields |-> fs[j]]],
   assets           |-> [a \in 1..n |-> a],
   tags             |-> <<"tag">>,
   locales          |-> <<"en-US">>,
   editorInterfaces |-> cts,
   webhooks         |-> <<>>]

\* splitExport starts on any bounded export, with any batch size
SplitInputs ==
  /\ spc = "batches"
  /\ \E cts \in {<<>>, <<"page">>}, n \in 0..MaxAssets, k \in 0..MaxEntries :
       \E fs \in [1..k -> FieldChoices] : exportData = Export(cts, n, fs)
  /\ batchSize \in 1..MaxBatchSize
  /\ batchIndex = 0
  /\ processedEntries = {}
  /\ outBatches = <<>>
  /\ outManifest = <<>>

\* the driver is not running
DriverOff == InitDriver /\ ~manifest.exists /\ maxRetries = 0

InitSplit ==
  SplitInputs /\ DriverOff /\ RLOff /\ ImportOff /\ SaveOff /\ ConcOff /\ ItemOff /\ RunOff
    /\ CleanOff

NextSplit ==
  \/ ProcessBatch
  \/ HandleOrphans
  \/ WriteManifest

SpecSplit == InitSplit /\ [][NextSplit]_vars

(***************************************************************************)
(* Properties of splitExport (SpecSplit)                                   *)
(***************************************************************************)
\* the ids of the entries written to the batch file named n
EntryIdsIn(n) ==
  [k \in 1..Len(outBatches[n].entries) |-> outBatches[n].entries[k].id]

\* how many times id occurs in the sequence s
Occurrences(s, id) == Cardinality({k \in 1..Len(s) : s[k] = id})

SourceEntryIds == {exportData.entries[k].id : k \in 1..Len(exportData.entries)}

\* C1 Partition completeness: when splitExport has written its batches, every
\* source entry id occurs in exactly one batch file, once, and the batch
\* files hold no other entry ids.
C1_PartitionCompleteness ==
  spc \in {"manifest", "done"}
  => /\ \A id \in SourceEntryIds :
          /\ Cardinality({n \in DOMAIN outBatches :
                            Occurrences(EntryIdsIn(n), id) > 0}) = 1
          /\ \A n \in DOMAIN outBatches : Occurrences(EntryIdsIn(n), id) <= 1
     /\ \A n \in DOMAIN outBatches : Range(EntryIdsIn(n)) \subseteq SourceEntryIds

\* a finished split with two asset batches and an overflow batch, in which an
\* entry links assets of both asset batches
C1_Witness ==
  /\ spc = "done"
  /\ Len(AssetBatches) >= 2
  /\ outManifest.totalBatches = Len(AssetBatches) + 1
  /\ \E k \in 1..Len(exportData.entries) :
       /\ Range(GetAssetReferencesFromEntry(exportData.entries[k]))
            \cap Range(AssetBatches[1]) # {}
       /\ Range(GetAssetReferencesFromEntry(exportData.entries[k]))
            \cap Range(AssetBatches[2]) # {}

\* the batch numbers whose file was written
WrittenBatchNumbers == {n \in 1..(MaxAssets + 2) : BatchNum(n) \in DOMAIN outBatches}

\* the batch numbers whose file holds at least one asset
AssetBearing == {n \in WrittenBatchNumbers : Len(outBatches[BatchNum(n)].assets) > 0}

\* the asset lists of the batch files 1..k, concatenated in batch order
RECURSIVE AssetsUpTo(_)
AssetsUpTo(k) ==
  IF k = 0 THEN <<>> ELSE AssetsUpTo(k - 1) \o outBatches[BatchNum(k)].assets

\* C12 Asset coverage: when splitExport has written its batches, the
\* asset-bearing batches are the batches 1..c with c = ceil(|assets| / s),
\* their asset lists concatenated in batch order are the source asset list,
\* and each of them holds exactly s assets, the last one between 1 and s.
C12_AssetCoverage ==
  spc \in {"manifest", "done"}
  => LET c == Cardinality(AssetBearing) IN
       /\ AssetBearing = 1..c
       /\ c * batchSize >= Len(exportData.assets)
       /\ (c - 1) * batchSize < Len(exportData.assets)
       /\ AssetsUpTo(c) = exportData.assets
       /\ \A n \in 1..c :
            /\ n < c => Len(outBatches[BatchNum(n)].assets) = batchSize
            /\ Len(outBatches[BatchNum(n)].assets) \in 1..batchSize

\* three assets split by two: a full batch and a last batch of one asset
C12_Witness ==
  /\ spc = "done"
  /\ Len(exportData.assets) = 3
  /\ batchSize = 2
  /\ AssetBearing = {1, 2}
  /\ Len(outBatches[BatchNum(1)].assets) = 2
  /\ Len(outBatches[BatchNum(2)].assets) = 1

\* the numbers of the asset chunks that hold an asset the entry references:
\* the asset at position p of the source list lies in chunk ceil(p / s)
ChunksReferenced(entry) ==
  {((p - 1) \div batchSize) + 1 :
     p \in {q \in 1..Len(exportData.assets) :
              exportData.assets[q] \in Range(GetAssetReferencesFromEntry(entry))}}

\* the entry is in the file of batch n
PlacedIn(entry, n) ==
  \E k \in 1..Len(outBatches[BatchNum(n)].entries) :
    outBatches[BatchNum(n)].entries[k].id = entry.id

\* C13 First-claim-wins: when splitExport has written its batches, an entry
\* that references an asset of some chunk is in the batch of the
\* lowest-numbered chunk holding an asset it references, and in no other
\* batch.
C13_FirstClaimWins ==
  spc \in {"manifest", "done"}
  => \A k \in 1..Len(exportData.entries) :
       LET entry == exportData.entries[k]
           chunks == ChunksReferenced(entry)
       IN chunks # {}
          => \A n \in WrittenBatchNumbers :
               PlacedIn(entry, n) <=> (n \in chunks /\ \A m \in chunks : n <= m)

\* an entry that references assets of chunk 1 and of chunk 2 is in batch 1
\* and not in batch 2
C13_Witness ==
  /\ spc = "done"
  /\ \E k \in 1..Len(exportData.entries) :
       /\ {1, 2} \subseteq ChunksReferenced(exportData.entries[k])
       /\ PlacedIn(exportData.entries[k], 1)
       /\ ~PlacedIn(exportData.entries[k], 2)

\* the batch numbers whose file has a non-empty content-types collection
WithContentModel ==
  {n \in WrittenBatchNumbers : Len(outBatches[BatchNum(n)].contentTypes) > 0}

\* C14 Content-model singularity (as claimed, and only for exports that have
\* content types): when splitExport has written its batches, exactly one
\* batch has a non-empty content-types collection, and it is batch 1.
C14_ContentModelSingularity ==
  (spc \in {"manifest", "done"} /\ Len(exportData.contentTypes) > 0)
  => WithContentModel = {1}

\* the number of asset chunks, ceil(|assets| / s)
ChunkCount == (Len(exportData.assets) + batchSize - 1) \div batchSize

\* the positions, in the source list, of the entries that reference no asset
\* of the export
Unclaimed ==
  {k \in 1..Len(exportData.entries) : ChunksReferenced(exportData.entries[k]) = {}}

\* C15 Overflow batch: when splitExport is done, if some entry references no
\* asset of the export then the batches are 1..c+1, c being the number of
\* asset chunks, batch c+1 has no asset and holds exactly those entries, in
\* source order, and totalBatches is c+1; if there is no such entry the
\* batches are 1..c and totalBatches is c.
C15_OverflowBatch ==
  spc = "done"
  => IF Unclaimed # {}
       THEN /\ WrittenBatchNumbers = 1..(ChunkCount + 1)
            /\ outBatches[BatchNum(ChunkCount + 1)].assets = <<>>
            /\ outBatches[BatchNum(ChunkCount + 1)].entries
                 = Filter(exportData.entries, Unclaimed, 1)
            /\ \A n \in 1..ChunkCount, k \in Unclaimed :
                 ~PlacedIn(exportData.entries[k], n)
            /\ outManifest.totalBatches = ChunkCount + 1
       ELSE /\ WrittenBatchNumbers = 1..ChunkCount
            /\ outManifest.totalBatches = ChunkCount

\* a finished split with an asset chunk that claimed an entry and an
\* overflow batch holding an entry whose only link is to an absent asset
C15_Witness ==
  /\ spc = "done"
  /\ ChunkCount >= 1
  /\ outManifest.totalBatches = ChunkCount + 1
  /\ Len(outBatches[BatchNum(1)].entries) = 1
  /\ \E k \in Unclaimed :
       Len(GetAssetReferencesFromEntry(exportData.entries[k])) > 0

(***************************************************************************)
(* RateLimiter (bin/rateLimiter.js), used by a caller that awaits each     *)
(* throttle call.                                                          *)
(*                                                                         *)
(* Times are milliseconds.  A token count is kept in units of 1/Scale      *)
(* token, so that the refill of either bucket over a whole number of       *)
(* milliseconds is a whole number of units: the arithmetic is exact where  *)
(* the code's is floating point.                                           *)
(***************************************************************************)
Scale == 3600000

\* the pause after a 429, and the operation's duration in the limiter's test
CooldownMs == 60000
OpMs == 10

\* how long an operation runs: no time at all, or the test's 10 ms
OpDurations == {0, OpMs}

\* time the caller spends between two throttle calls (0, or the 2 s poll sleep)
Gaps == {0, 2000}

\* how late a timer may fire
Lateness == {0, 1}

\* a header that is absent parses to NaN
NaN == -1

Min2(a, b) == IF a <= b THEN a ELSE b

\* new RateLimiter({requestsPerSecond, requestsPerHour}) at time t
NewRateLimiter(rps, rph, t) ==
  [requestsPerSecond |-> rps,
   requestsPerHour   |-> rph,
   secondBucket |-> [capacity |-> rps, tokens |-> rps * Scale,
                     perMs |-> rps * (Scale \div 1000), lastRefill |-> t],
   hourBucket   |-> [capacity |-> rph, tokens |-> rph * Scale,
                     perMs |-> rph, lastRefill |-> t],
   stats |-> [totalRequests |-> 0, totalWaitTime |-> 0,
              throttledRequests |-> 0, startTime |-> t]]

\* refillBucket(bucket) at time t: min(capacity, tokens + timePassed * refillRate);
\* the sum is not formed when it would exceed the capacity anyway
RefillBucket(b, t) ==
  [b EXCEPT
     !.tokens =
       IF b.tokens >= b.capacity * Scale THEN Min2(b.capacity * Scale, b.tokens)
       ELSE IF (t - b.lastRefill)
                 >= (b.capacity * Scale - b.tokens + b.perMs - 1) \div b.perMs
         THEN b.capacity * Scale
       ELSE b.tokens + (t - b.lastRefill) * b.perMs,
     !.lastRefill = t]

\* bucket.tokens < 1
NeedsWait(b) ==
  b.tokens < Scale

\* mutant: the wait is rounded down, Math.floor
WaitTimeFloor(b) ==
  (Scale - b.tokens) \div b.perMs

\* mutant: no wait is computed
WaitTimeNone(b) ==
  0

\* Math.ceil((tokensNeeded / bucket.refillRate) * 1000)
WaitTime(b) ==
  (Scale - b.tokens + b.perMs - 1) \div b.perMs

\* mutant: two tokens are taken
ConsumeTwo(b) ==
  [b EXCEPT !.tokens = @ - 2 * Scale]

\* bucket.tokens -= 1
Consume(b) ==
  [b EXCEPT !.tokens = @ - Scale]

\* stats.throttledRequests++; stats.totalWaitTime += waitTime
CountWait(st, w) ==
  [st EXCEPT !.throttledRequests = @ + 1, !.totalWaitTime = @ + w]

\* mutant: no pause after a 429
CooldownDelayNone(status) ==
  0

\* the pause throttle takes before it re-raises an error with this status
CooldownDelay(status) ==
  IF status = 429 THEN CooldownMs ELSE 0

\* the conservative reset after a 429
ResetAfter429(r) ==
  [r EXCEPT !.secondBucket.tokens = 0,
            !.hourBucket.tokens =
              Min2(@, (r.hourBucket.capacity * Scale) \div 2)]

\* updateFromHeaders(headers)
UpdateFromHeadersOp(r, secondRemaining, hourRemaining) ==
  [r EXCEPT
     !.secondBucket.tokens =
       IF secondRemaining # NaN THEN Min2(@, secondRemaining * Scale) ELSE @,
     !.hourBucket.tokens =
       IF hourRemaining # NaN THEN Min2(@, hourRemaining * Scale) ELSE @]

\* fn() is called: the operation is admitted at time t
Admit(r, t) ==
  /\ rl' = [r EXCEPT !.stats.totalRequests = @ + 1]
  /\ rpc' = "exec"
  /\ clock' = t
  /\ opsStarted' = opsStarted + 1
  /\ firstAdmit' = IF firstAdmit < 0 THEN t ELSE firstAdmit
  /\ lastAdmit' = t

\* waitForToken(hourBucket) at time t, after the second bucket gave its token
HourGate(r, t) ==
  LET hb == RefillBucket(r.hourBucket, t) IN
    IF NeedsWait(hb)
      THEN /\ rl' = [r EXCEPT !.hourBucket = hb,
                              !.stats = CountWait(@, WaitTime(hb))]
           /\ rpc' = "wait_hour"
           /\ clock' = t
           /\ UNCHANGED <<opsStarted, firstAdmit, lastAdmit>>
      ELSE Admit([r EXCEPT !.hourBucket = Consume(hb)], t)

\* throttle(fn) is called: waitForToken(secondBucket) up to its first await
StartThrottle ==
  /\ rpc = "idle"
  /\ calls < MaxCalls
  /\ calls' = calls + 1
  /\ \E gap \in Gaps :
       LET t == clock + gap
           sb == RefillBucket(rl.secondBucket, t)
       IN IF NeedsWait(sb)
            THEN /\ rl' = [rl EXCEPT !.secondBucket = sb,
                                     !.stats = CountWait(@, WaitTime(sb))]
                 /\ rpc' = "wait_second"
                 /\ clock' = t
                 /\ UNCHANGED <<opsStarted, firstAdmit, lastAdmit>>
            ELSE HourGate([rl EXCEPT !.secondBucket = Consume(sb)], t)
  /\ UNCHANGED <<last429, outcome>>
  /\ UNCHANGED <<driverVars, splitVars, importVars, saveVars, concVars, itemVars, runVars,
                 cleanVars>>

\* the timer of waitForToken(secondBucket) fires: refill, consume, hour gate
WakeSecond ==
  /\ rpc = "wait_second"
  /\ \E late \in Lateness :
       LET t == clock + WaitTime(rl.secondBucket) + late
           sb == RefillBucket(rl.secondBucket, t)
       IN HourGate([rl EXCEPT !.secondBucket = Consume(sb)], t)
  /\ UNCHANGED <<last429, calls, outcome>>
  /\ UNCHANGED <<driverVars, splitVars, importVars, saveVars, concVars, itemVars, runVars,
                 cleanVars>>

\* the timer of waitForToken(hourBucket) fires: refill, consume, call fn
WakeHour ==
  /\ rpc = "wait_hour"
  /\ \E late \in Lateness :
       LET t == clock + WaitTime(rl.hourBucket) + late
           hb == RefillBucket(rl.hourBucket, t)
       IN Admit([rl EXCEPT !.hourBucket = Consume(hb)], t)
  /\ UNCHANGED <<last429, calls, outcome>>
  /\ UNCHANGED <<driverVars, splitVars, importVars, saveVars, concVars, itemVars, runVars,
                 cleanVars>>

\* fn() resolves: throttle returns its result
OpReturns ==
  /\ rpc = "exec"
  /\ \E d \in OpDurations : clock' = clock + d
  /\ rpc' = "idle"
  /\ outcome' = "returned"
  /\ UNCHANGED <<rl, opsStarted, firstAdmit, lastAdmit, last429, calls>>
  /\ UNCHANGED <<driverVars, splitVars, importVars, saveVars, concVars, itemVars, runVars,
                 cleanVars>>

\* fn() rejects with an error that is not a 429: throttle re-raises it
OpFails ==
  /\ rpc = "exec"
  /\ \E d \in OpDurations : clock' = clock + d + CooldownDelay(500)
  /\ rpc' = "idle"
  /\ outcome' = "raised"
  /\ UNCHANGED <<rl, opsStarted, firstAdmit, lastAdmit, last429, calls>>
  /\ UNCHANGED <<driverVars, splitVars, importVars, saveVars, concVars, itemVars, runVars,
                 cleanVars>>

\* fn() rejects with status 429: the 60 s timer is started
OpFails429 ==
  /\ rpc = "exec"
  /\ \E d \in OpDurations : clock' = clock + d
  /\ last429' = clock'
  /\ rpc' = "cooldown"
  /\ UNCHANGED <<rl, opsStarted, firstAdmit, lastAdmit, calls, outcome>>
  /\ UNCHANGED <<driverVars, splitVars, importVars, saveVars, concVars, itemVars, runVars,
                 cleanVars>>

\* mutant: after the cooldown the operation is called again
CooldownEndRetries ==
  /\ rpc = "cooldown"
  /\ clock' = clock + CooldownDelay(429)
  /\ rl' = ResetAfter429(rl)
  /\ rpc' = "exec"
  /\ opsStarted' = opsStarted + 1
  /\ lastAdmit' = clock'
  /\ UNCHANGED <<firstAdmit, last429, calls, outcome>>
  /\ UNCHANGED <<driverVars, splitVars, importVars, saveVars, concVars, itemVars, runVars,
                 cleanVars>>

\* the cooldown timer fires: the buckets are reset and the error re-raised
CooldownEnd ==
  /\ rpc = "cooldown"
  /\ \E late \in Lateness :
       clock' = clock + CooldownDelay(429) + late
  /\ rl' = ResetAfter429(rl)
  /\ rpc' = "idle"
  /\ outcome' = "raised"
  /\ UNCHANGED <<opsStarted, firstAdmit, lastAdmit, last429, calls>>
  /\ UNCHANGED <<driverVars, splitVars, importVars, saveVars, concVars, itemVars, runVars,
                 cleanVars>>

\* the caller passes the rate-limit headers of a response to the limiter
UpdateFromHeaders ==
  /\ rpc = "idle"
  /\ opsStarted > 0
  /\ \E sr \in {NaN, 0, 1}, hr \in {NaN, 1} :
       rl' = UpdateFromHeadersOp(rl, sr, hr)
  /\ rl' # rl
  /\ UNCHANGED <<rpc, clock, opsStarted, firstAdmit, lastAdmit, last429, calls,
                 outcome>>
  /\ UNCHANGED <<driverVars, splitVars, importVars, saveVars, concVars, itemVars, runVars,
                 cleanVars>>

InitRL ==
  /\ \E rps \in 1..MaxRPS : rl = NewRateLimiter(rps, HourBudget, 0)
  /\ rpc = "idle"
  /\ clock = 0
  /\ opsStarted = 0
  /\ firstAdmit = -1
  /\ lastAdmit = -1
  /\ last429 = -1
  /\ calls = 0
  /\ outcome = "none"
  /\ DriverOff
  /\ SplitOff
  /\ ImportOff
  /\ SaveOff
  /\ ConcOff
  /\ ItemOff
  /\ RunOff
  /\ CleanOff

NextRL ==
  \/ StartThrottle
  \/ WakeSecond
  \/ WakeHour
  \/ OpReturns
  \/ OpFails
  \/ OpFails429
  \/ CooldownEnd
  \/ UpdateFromHeaders

SpecRL == InitRL /\ [][NextRL]_vars

(***************************************************************************)
(* Properties of the RateLimiter (SpecRL)                                  *)
(***************************************************************************)
\* C3 Token bucket bound: with N operations admitted so far, the time from
\* the first admission to the latest one, in seconds, is at least
\* (N - capacity) / refillRate of the second bucket.
C3_TokenBucketBound ==
  opsStarted >= 1
  => (lastAdmit - firstAdmit) * rl.requestsPerSecond
       >= (opsStarted - rl.secondBucket.capacity) * 1000

\* more operations than the capacity were admitted, none of them failed with
\* a 429, and the bound is met with less than one refill period to spare
C3_Witness ==
  /\ opsStarted >= rl.secondBucket.capacity + 2
  /\ last429 < 0
  /\ rpc = "exec"
  /\ (lastAdmit - firstAdmit) * rl.requestsPerSecond
       < (opsStarted - rl.secondBucket.capacity + 1) * 1000

\* C8 429 cooldown: an operation that starts after a 429 was raised on this
\* limiter starts at least 60 s after that error.
C8_Cooldown429 ==
  [][(opsStarted' = opsStarted + 1 /\ last429 >= 0)
     => clock' - last429 >= CooldownMs]_vars

\* the next operation after a 429 has been admitted
C8_Witness ==
  /\ last429 >= 0
  /\ rpc = "exec"
  /\ lastAdmit >= last429
  /\ opsStarted >= 2

\* C18 Bucket range invariant: for a caller that awaits each throttle call,
\* with 429 resets and updateFromHeaders calls whose values are not
\* negative, the token count of each bucket is at all times at least 0 and
\* at most the bucket's capacity.
C18_BucketRange ==
  /\ rl.secondBucket.tokens >= 0
  /\ rl.secondBucket.tokens <= rl.secondBucket.capacity * Scale
  /\ rl.hourBucket.tokens >= 0
  /\ rl.hourBucket.tokens <= rl.hourBucket.capacity * Scale

\* an operation was admitted after a wait that was rounded up to whole
\* milliseconds, no 429 having occurred: the second bucket holds less than
\* one token and more than none
C18_Witness ==
  /\ rpc = "exec"
  /\ last429 < 0
  /\ rl.stats.throttledRequests >= 1
  /\ rl.secondBucket.lastRefill = clock
  /\ rl.secondBucket.tokens > 0
  /\ rl.secondBucket.tokens < rl.secondBucket.perMs

\* throttle has just reset the buckets after a 429 and no bucket was
\* refilled since: the clock stands at the time of the reset
JustReset ==
  /\ rpc = "idle"
  /\ outcome = "raised"
  /\ last429 >= 0
  /\ clock >= last429 + CooldownMs
  /\ rl.secondBucket.lastRefill <= last429

\* C30 (as claimed): the reset after a 429 leaves the second bucket empty
\* and the hour bucket with at most half of its capacity, and the next
\* throttle call, begun t ms after the reset, finds after its refill at
\* most min(capacity, t * refillRate) tokens in the second bucket.
C30_ConservativeReset ==
  [][/\ (rpc = "cooldown" /\ rpc' = "idle")
        => /\ rl'.secondBucket.tokens = 0
           /\ 2 * rl'.hourBucket.tokens <= rl'.hourBucket.capacity * Scale
     /\ (JustReset /\ calls' = calls + 1)
        => rl'.secondBucket.tokens + (IF rpc' = "wait_second" THEN 0 ELSE Scale)
             <= Min2(rl.secondBucket.capacity * Scale,
                     (clock' - clock) * rl.secondBucket.perMs)]_vars

Refilled(b, t) ==
  IF b.tokens >= b.capacity * Scale THEN b.capacity * Scale
  ELSE IF (t - b.lastRefill) > (b.capacity * Scale - b.tokens) \div b.perMs
    THEN b.capacity * Scale
  ELSE Min2(b.capacity * Scale, b.tokens + (t - b.lastRefill) * b.perMs)

\* C32 One token per admitted call: the step of a throttle call that takes
\* the token of the second bucket, at once or after the wait, leaves in it
\* the refilled count less 1 token, and likewise the step that takes the
\* token of the hour bucket, which is the step that starts the operation;
\* a step that begins a wait only refills, and no other step of the call
\* touches either count.
C32_OneTokenPerCall ==
  [][/\ (rpc \in {"idle", "wait_second"} /\ rpc' \in {"wait_hour", "exec"})
        => rl'.secondBucket.tokens = Refilled(rl.secondBucket, clock') - Scale
     /\ (rpc = "idle" /\ rpc' = "wait_second")
        => /\ rl'.secondBucket.tokens = Refilled(rl.secondBucket, clock')
           /\ rl'.hourBucket = rl.hourBucket
     /\ (rpc \in {"idle", "wait_second"} /\ rpc' = "wait_hour")
        => rl'.hourBucket.tokens = Refilled(rl.hourBucket, clock')
     /\ (rpc = "wait_hour" /\ rpc' = "exec")
        => rl'.secondBucket = rl.secondBucket
     /\ opsStarted' = opsStarted + 1
        => rl'.hourBucket.tokens = Refilled(rl.hourBucket, clock') - Scale
     /\ (rpc = "exec" /\ rpc' = "idle")
        => rl' = rl]_vars

\* the second call on a limiter of one request per second was admitted
\* after a wait on the second bucket, which is empty again; the hour bucket
\* has given two tokens and got back the refill of that second
C32_Witness ==
  /\ rpc = "exec"
  /\ opsStarted = 2
  /\ last429 < 0
  /\ rl.stats.throttledRequests = 1
  /\ rl.secondBucket.capacity = 1
  /\ rl.secondBucket.tokens = 0
  /\ rl.secondBucket.lastRefill = clock
  /\ rl.hourBucket.tokens = (rl.hourBucket.capacity - 2) * Scale + clock * rl.hourBucket.perMs

\* C33 (as claimed): throttledRequests grows by at most 1 per throttle
\* call, a call that waited on the second bucket not being counted again;
\* whenever no call is pending it is at most totalRequests; and
\* totalRequests is the number of operations started.
C33_ThrottledCountsCalls ==
  [][/\ rl'.stats.throttledRequests <= rl.stats.throttledRequests + 1
     /\ rpc = "wait_second"
        => rl'.stats.throttledRequests = rl.stats.throttledRequests
     /\ rpc' = "idle"
        => rl'.stats.throttledRequests <= rl'.stats.totalRequests
     /\ rl'.stats.totalRequests = opsStarted']_vars

(***************************************************************************)
(* importBatch (bin/import.js): the remote calls of one batch attempt and  *)
(* the rate limiter it creates.  The options are those of the documented   *)
(* configuration: uploadAssets, publishing on, no skip of existing items.  *)
(* Timers fire on time and a remote call takes no time.                    *)
(***************************************************************************)
\* importOptions.retryDelay and importOptions.delayBetweenBatches
RetryDelay == 5000
DelayBetweenBatches == 180000

\* sleep(2000) between two checks of an asset being processed
PollSleep == 2000

\* mutant: the same sleep before every retry
BackoffDelayFlat(k) ==
  RetryDelay

\* sleep(importOptions.retryDelay * retries), made when retries > 0
BackoffDelay(k) ==
  RetryDelay * k

\* a throttled closure: the sleep that precedes it and the remote calls it makes
Closure(sleepMs, n) == [sleep |-> sleepMs, calls |-> n]

\* the closures importBatch runs for one item of each kind
ClosuresOf(kind) ==
  CASE kind = "locale"          -> <<Closure(0, 2)>>
    [] kind = "tag"             -> <<Closure(0, 1)>>
    [] kind = "contentType"     -> <<Closure(0, 2)>>
    [] kind = "editorInterface" -> <<Closure(0, 3)>>
    [] kind = "asset"           -> <<Closure(0, 1), Closure(0, 1),
                                     Closure(PollSleep, 1), Closure(0, 2)>>
    [] kind = "entry"           -> <<Closure(0, 1), Closure(0, 1)>>

\* the item at position k of its collection
Item(kind, k) == [kind |-> kind, index |-> k, closures |-> ClosuresOf(kind)]

\* the n items of one collection, in collection order
Items(kind, n) == [k \in 1..n |-> Item(kind, k)]

\* mutant: the entries are imported before the assets and the content model
PlanEntriesFirst(isFirstBatch, batchData) ==
  Items("entry", batchData.entries)
  \o Items("asset", batchData.assets)
  \o (IF isFirstBatch /\ batchData.contentTypes > 0
        THEN Items("locale", batchData.locales) \o Items("tag", batchData.tags)
             \o Items("contentType", batchData.contentTypes)
             \o Items("editorInterface", batchData.editorInterfaces)
        ELSE <<>>)

\* the items importBatch imports, in its order, for a batch file with the
\* given numbers of records
Plan(isFirstBatch, batchData) ==
  (IF isFirstBatch /\ batchData.contentTypes > 0
     THEN Items("locale", batchData.locales) \o Items("tag", batchData.tags)
          \o Items("contentType", batchData.contentTypes)
          \o Items("editorInterface", batchData.editorInterfaces)
     ELSE <<>>)
  \o Items("asset", batchData.assets)
  \o Items("entry", batchData.entries)

\* const rateLimiter = rateLimits?.enabled ? new RateLimiter({...}) : null
CreateLimiter(on, t) ==
  IF on THEN NewRateLimiter(MaxRPS, HourBudget, t) ELSE Null

\* waitForToken(bucket) entered at time t, its timer firing on time: the
\* bucket after the token is taken and the time at which it is taken
WaitForToken(b, t) ==
  LET b0 == RefillBucket(b, t) IN
    IF NeedsWait(b0)
      THEN [bucket |-> Consume(RefillBucket(b0, t + WaitTime(b0))),
            at |-> t + WaitTime(b0), waited |-> WaitTime(b0)]
      ELSE [bucket |-> Consume(b0), at |-> t, waited |-> 0]

\* throttle(fn) called at time t, up to the call of fn: the limiter and the
\* time of the admission
ThrottleAt(r, t) ==
  LET s == WaitForToken(r.secondBucket, t)
      h == WaitForToken(r.hourBucket, s.at)
      st1 == IF s.waited > 0 THEN CountWait(r.stats, s.waited) ELSE r.stats
      st2 == IF h.waited > 0 THEN CountWait(st1, h.waited) ELSE st1
  IN [rl |-> [r EXCEPT !.secondBucket = s.bucket, !.hourBucket = h.bucket,
                       !.stats = [st2 EXCEPT !.totalRequests = @ + 1]],
      at |-> h.at]

\* a batch file with the given numbers of records per kind
BatchFile(cm, a, e) ==
  [contentTypes |-> cm, locales |-> cm, tags |-> cm, editorInterfaces |-> cm,
   assets |-> a, entries |-> e]

\* the batch files importBatch may be given: at most one record of each
\* kind, or two entries and nothing else
BatchFiles ==
  {BatchFile(cm, a, e) : cm \in 0..1, a \in 0..1, e \in 0..1}
    \cup {BatchFile(0, 0, 2)}

\* the part of the driver's variables importBatch and the code around its
\* call leave alone
importFrame ==
  <<manifest, pc, startFromBatch, cmd, exitCode, maxRetries, runs, attempts, invoked>>

\* the driver's loop reaches its next importBatch call: the first batch, a
\* retry of the batch that threw, after retryDelay * retries, or the next
\* batch, after delayBetweenBatches when the last one completed
NextCall ==
  IF batchCalls = 0
    THEN [batch |-> 1, gap |-> 0, retry |-> FALSE]
  ELSE IF result = "threw" /\ WhileCond(retries, maxRetries, FALSE)
    THEN [batch |-> i, gap |-> BackoffDelay(retries), retry |-> TRUE]
  ELSE [batch |-> i + 1,
        gap |-> IF result = "returned" THEN DelayBetweenBatches ELSE 0,
        retry |-> FALSE]

\* the driver calls importBatch(batchDir, batchNum, batchInfo.hasContentModel);
\* a new batch is first marked current and saved
StartBatch ==
  /\ bpc = "idle"
  /\ batchCalls < MaxBatchCalls
  /\ NextCall.batch <= manifest.totalBatches
  /\ batchCalls' = batchCalls + 1
  /\ i' = NextCall.batch
  /\ clock' = clock + NextCall.gap
  /\ rl' = CreateLimiter(enabled, clock')
  /\ IF NextCall.retry
       THEN /\ UNCHANGED <<batchInput, state, file, fileExists, retries>>
            /\ saved' = FALSE
       ELSE /\ \E isFirstBatch \in BOOLEAN, batchData \in BatchFiles :
                 batchInput' = [isFirstBatch |-> isFirstBatch, batchData |-> batchData]
            /\ state' = MarkCurrent(state, BatchNum(NextCall.batch))
            /\ SaveState(state')
            /\ retries' = 0
  /\ plan' = Plan(batchInput'.isFirstBatch, batchInput'.batchData)
  /\ remoteCalls' = 0
  /\ admissions' = 0
  /\ pending' = 0
  /\ givenUp' = 0
  /\ result' = "running"
  /\ rejected' = "none"
  /\ bpc' = "getSpace"
  /\ UNCHANGED <<enabled, admitTimes, successCount, failureCount, importFrame>>
  /\ UNCHANGED <<rpc, opsStarted, firstAdmit, lastAdmit, last429, calls, outcome>>
  /\ UNCHANGED <<splitVars, saveVars, concVars, itemVars, runVars, cleanVars>>

\* importBatch throws: the catch block of the driver counts a retry and,
\* when the ceiling is exceeded, records the batch as failed
DriverCatches ==
  /\ result' = "threw"
  /\ retries' = retries + 1
  /\ IF Exhausted(retries', maxRetries)
       THEN /\ state' = MarkFailed(state, BatchNum(i), ErrorMessage(retries'), 0)
            /\ SaveState(state')
            /\ failureCount' = failureCount + 1
       ELSE /\ UNCHANGED <<state, file, fileExists, failureCount>>
            /\ saved' = FALSE
  /\ UNCHANGED <<i, successCount, importFrame>>

\* importBatch returns: the driver records the batch as completed
DriverRecords ==
  /\ result' = "returned"
  /\ successCount' = successCount + 1
  /\ state' = MarkCompleted(state, BatchNum(i))
  /\ SaveState(state')
  /\ UNCHANGED <<i, retries, failureCount, importFrame>>

\* await client.getSpace(...)
GetSpace ==
  /\ bpc = "getSpace"
  /\ remoteCalls' = remoteCalls + 1
  /\ bpc' = "getEnvironment"
  /\ rejected' = "none"
  /\ UNCHANGED <<enabled, plan, pending, admissions, admitTimes, batchCalls,
                 batchInput, givenUp, result>>
  /\ UNCHANGED <<driverVars, splitVars, rlVars, saveVars, concVars, itemVars, runVars,
                 cleanVars>>

\* await space.getEnvironment(...)
GetEnvironment ==
  /\ bpc = "getEnvironment"
  /\ remoteCalls' = remoteCalls + 1
  /\ bpc' = "items"
  /\ rejected' = "none"
  /\ UNCHANGED <<enabled, plan, pending, admissions, admitTimes, batchCalls,
                 batchInput, givenUp, result>>
  /\ UNCHANGED <<driverVars, splitVars, rlVars, saveVars, concVars, itemVars, runVars,
                 cleanVars>>

\* getSpace or getEnvironment rejects: importBatch throws
ConnectFails ==
  /\ bpc \in {"getSpace", "getEnvironment"}
  /\ remoteCalls' = remoteCalls + 1
  /\ plan' = <<>>
  /\ bpc' = "idle"
  /\ rejected' = "connect"
  /\ DriverCatches
  /\ UNCHANGED <<enabled, pending, admissions, admitTimes, batchCalls,
                 batchInput, givenUp>>
  /\ UNCHANGED <<splitVars, rlVars, saveVars, concVars, itemVars, runVars, cleanVars>>

\* the next closure of the current item is run, through rateLimiter.throttle
\* when there is a limiter, directly otherwise
BeginClosure ==
  /\ bpc = "items"
  /\ plan # <<>>
  /\ LET closure == Head(Head(plan).closures)
         t == clock + closure.sleep
     IN /\ pending' = closure.calls
        /\ IF rl # Null
             THEN /\ rl' = ThrottleAt(rl, t).rl
                  /\ clock' = ThrottleAt(rl, t).at
                  /\ admissions' = admissions + 1
                  /\ admitTimes' = Append(admitTimes, clock')
             ELSE /\ clock' = t
                  /\ UNCHANGED <<rl, admissions, admitTimes>>
  /\ bpc' = "closure"
  /\ rejected' = "none"
  /\ UNCHANGED <<enabled, plan, remoteCalls, batchCalls, batchInput, givenUp, result>>
  /\ UNCHANGED <<rpc, opsStarted, firstAdmit, lastAdmit, last429, calls, outcome>>
  /\ UNCHANGED <<driverVars, splitVars, saveVars, concVars, itemVars, runVars, cleanVars>>

\* the running closure makes its next remote call
RemoteCall ==
  /\ bpc = "closure"
  /\ pending > 0
  /\ pending' = pending - 1
  /\ remoteCalls' = remoteCalls + 1
  /\ rejected' = "none"
  /\ UNCHANGED <<bpc, enabled, plan, admissions, admitTimes, batchCalls,
                 batchInput, givenUp, result>>
  /\ UNCHANGED <<driverVars, splitVars, rlVars, saveVars, concVars, itemVars, runVars,
                 cleanVars>>

\* the plan without the first closure of its first item, and without the
\* item when that was its last closure
AfterClosure(pl) ==
  IF Len(Head(pl).closures) = 1 THEN Tail(pl)
  ELSE <<[Head(pl) EXCEPT !.closures = Tail(@)]>> \o Tail(pl)

\* the running closure returns
ClosureReturns ==
  /\ bpc = "closure"
  /\ pending = 0
  /\ plan' = AfterClosure(plan)
  /\ bpc' = "items"
  /\ rejected' = "none"
  /\ UNCHANGED <<enabled, pending, remoteCalls, admissions, admitTimes, batchCalls,
                 batchInput, givenUp, result>>
  /\ UNCHANGED <<driverVars, splitVars, rlVars, saveVars, concVars, itemVars, runVars,
                 cleanVars>>

\* mutant: the error of any item is thrown again
RethrowsAll(kind) ==
  TRUE

\* mutant: no catch block throws the error again
RethrowsNone(kind) ==
  FALSE

\* the catch block of the loop over the items of this kind throws the
\* error again
Rethrows(kind) ==
  kind = "contentType"

\* the remote call just made rejects (a 429, a timeout, a 5xx or any other
\* error, which throttle throws again): the error of a content type ends
\* importBatch, any other item is logged and given up
ClosureThrows ==
  /\ bpc = "closure"
  /\ pending < Head(Head(plan).closures).calls
  /\ pending' = 0
  /\ rejected' = Head(plan).kind
  /\ IF Rethrows(Head(plan).kind)
       THEN /\ plan' = <<>>
            /\ bpc' = "idle"
            /\ givenUp' = givenUp
            /\ DriverCatches
       ELSE /\ plan' = Tail(plan)
            /\ bpc' = "items"
            /\ givenUp' = givenUp + 1
            /\ UNCHANGED <<result, driverVars, runVars, cleanVars>>
  /\ UNCHANGED <<enabled, remoteCalls, admissions, admitTimes, batchCalls, batchInput>>
  /\ UNCHANGED <<splitVars, rlVars, saveVars, concVars, itemVars, runVars, cleanVars>>

\* every item was handled: importBatch returns
BatchReturns ==
  /\ bpc = "items"
  /\ plan = <<>>
  /\ bpc' = "idle"
  /\ rejected' = "none"
  /\ DriverRecords
  /\ UNCHANGED <<enabled, plan, pending, remoteCalls, admissions, admitTimes,
                 batchCalls, batchInput, givenUp>>
  /\ UNCHANGED <<splitVars, rlVars, saveVars, concVars, itemVars, runVars, cleanVars>>

InitImport ==
  /\ bpc = "idle"
  /\ enabled \in BOOLEAN
  /\ plan = <<>>
  /\ pending = 0
  /\ remoteCalls = 0
  /\ admissions = 0
  /\ admitTimes = <<>>
  /\ batchCalls = 0
  /\ batchInput = <<>>
  /\ givenUp = 0
  /\ result = "none"
  /\ rejected = "none"
  /\ InitDriver
  /\ manifest.exists
  /\ manifest.totalBatches = MaxBatches
  /\ SplitOff
  /\ RLOff
  /\ SaveOff
  /\ ConcOff
  /\ ItemOff
  /\ RunOff
  /\ CleanOff

NextImport ==
  \/ StartBatch
  \/ GetSpace
  \/ GetEnvironment
  \/ ConnectFails
  \/ BeginClosure
  \/ RemoteCall
  \/ ClosureReturns
  \/ ClosureThrows
  \/ BatchReturns

SpecImport == InitImport /\ [][NextImport]_vars

(***************************************************************************)
(* Properties of importBatch (SpecImport)                                  *)
(***************************************************************************)
\* C16 (as claimed): with rate limiting enabled, at every point of an
\* importBatch call the remote calls issued so far are no more than the
\* throttle calls admitted so far.
C16_EveryCallAdmitted ==
  enabled => remoteCalls <= admissions

\* C17 (as claimed): with rate limiting enabled, any admissions j..k of a
\* run, T seconds apart, number at most requestsPerHour + T *
\* requestsPerHour / 3600 and at most requestsPerSecond + T *
\* requestsPerSecond.
C17_HourBudgetCumulative ==
  enabled
  => \A j \in 1..Len(admitTimes), k \in 1..Len(admitTimes) :
       j <= k
       => /\ (k - j + 1 - HourBudget) * 3600000
               <= (admitTimes[k] - admitTimes[j]) * HourBudget
          /\ (k - j + 1 - MaxRPS) * 1000
               <= (admitTimes[k] - admitTimes[j]) * MaxRPS

\* C24 (as claimed): a remote call of a batch that rejects, whichever item
\* it was made for, makes the importBatch call throw, which the driver
\* counts as a failed attempt of the batch.
C24_TransientFailsAttempt ==
  [][rejected' # "none"
     => (result' = "threw" /\ retries' = retries + 1)]_vars

\* C25 Per-item isolation: when a remote call made for an asset or an entry
\* rejects, importBatch goes on with the items after it, it does not throw
\* and the driver's retry counter and state are left alone; an importBatch
\* call in which only such calls rejected returns, and the driver records
\* the batch completed.
C25_ItemIsolation ==
  [][/\ rejected' \in {"asset", "entry"}
        => /\ bpc' = "items"
           /\ plan' = Tail(plan)
           /\ result' = "running"
           /\ retries' = retries
           /\ state' = state
           /\ file' = file
     /\ (bpc = "items" /\ plan = <<>> /\ givenUp > 0)
        => /\ result' = "returned"
           /\ retries' = retries
           /\ BatchNum(i) \in Range(file'.completedBatches)
           /\ file'.currentBatch = Null]_vars

\* an importBatch call for a batch with an asset and an entry has returned
\* after one of the two was given up and the other imported, and the batch
\* is recorded completed without a retry
C25_Witness ==
  /\ bpc = "idle"
  /\ result = "returned"
  /\ givenUp = 1
  /\ batchInput.batchData.assets = 1
  /\ batchInput.batchData.entries = 1
  /\ remoteCalls >= 5
  /\ retries = 0
  /\ failureCount = 0
  /\ BatchNum(i) \in PersistedCompleted

\* C26 Content-type failure: when a remote call made for a content type
\* rejects, importBatch throws at once, the driver counts one retry, and no
\* remote call and no throttle call is made until the driver calls
\* importBatch again.
C26_ContentTypeFatal ==
  [][/\ rejected' = "contentType"
        => /\ bpc' = "idle"
           /\ plan' = <<>>
           /\ result' = "threw"
           /\ retries' = retries + 1
           /\ remoteCalls' = remoteCalls
     /\ (result = "threw" /\ batchCalls' = batchCalls)
        => (remoteCalls' = remoteCalls /\ admissions' = admissions)]_vars

\* a content type of a batch that also holds an editor interface, an asset
\* and an entry has just failed: importBatch threw with these items left
C26_Witness ==
  /\ rejected = "contentType"
  /\ result = "threw"
  /\ bpc = "idle"
  /\ batchInput.isFirstBatch
  /\ batchInput.batchData.editorInterfaces = 1
  /\ batchInput.batchData.assets = 1
  /\ batchInput.batchData.entries = 1
  /\ retries = 1
  /\ remoteCalls \in 3..6

\* the place of a collection in the order of the claim
KindRank(kind) ==
  CASE kind = "locale"          -> 1
    [] kind = "tag"             -> 2
    [] kind = "contentType"     -> 3
    [] kind = "editorInterface" -> 4
    [] kind = "asset"           -> 5
    [] kind = "entry"           -> 6

\* item x comes before item y: an earlier collection, or the same
\* collection and an earlier position in it
ComesBefore(x, y) ==
  \/ KindRank(x.kind) < KindRank(y.kind)
  \/ x.kind = y.kind /\ x.index < y.index

\* C36 Ordering within a batch attempt: a throttled closure is started for
\* an item only when no other closure is running and every item still to be
\* handled belongs to a later collection (locales, tags, content types,
\* editor interfaces, assets, entries) or to a later position of the same
\* collection; and while the attempt runs the items still to be handled only
\* lose their first element, so what was started earlier is never started
\* after it.
C36_BatchOrder ==
  [][/\ (bpc = "items" /\ bpc' = "closure")
        => /\ pending = 0
           /\ \A k \in 2..Len(plan) : ComesBefore(plan[1], plan[k])
     /\ (bpc = "closure" /\ bpc' = "closure") => plan' = plan
     /\ (bpc = "closure" /\ bpc' = "items")
        => plan' \in {Tail(plan), AfterClosure(plan)}]_vars

\* the entry of a first batch with a content model and an asset is being
\* created, nothing having been given up
C36_Witness ==
  /\ bpc = "closure"
  /\ batchInput.isFirstBatch
  /\ batchInput.batchData = BatchFile(1, 1, 1)
  /\ plan # <<>>
  /\ plan[1].kind = "entry"
  /\ Len(plan[1].closures) = 2
  /\ givenUp = 0
  /\ remoteCalls > 2

\* ---------------------------------------------------------------------
\* saveState at the level of the file's content: fs.writeFileSync opens
\* import-state.json with truncation and then writes the serialised
\* state, and the process can be terminated between any two of these
\* steps
\* ---------------------------------------------------------------------

\* one member of the serialised object
Member(key, value) == [tok |-> key, val |-> value]

\* JSON.stringify(state, null, 2)
Serialize(st) ==
  << Member("{", Null),
     Member("startedAt", st.startedAt),
     Member("completedBatches", st.completedBatches),
     Member("failedBatches", st.failedBatches),
     Member("currentBatch", st.currentBatch),
     Member("}", Null) >>

SerializedKeys ==
  <<"{", "startedAt", "completedBatches", "failedBatches", "currentBatch", "}">>

\* JSON.parse(fs.readFileSync(STATE_FILE)): throws a SyntaxError on
\* anything but a complete object
Parse(d) ==
  IF /\ Len(d) = Len(SerializedKeys)
     /\ \A k \in 1..Len(d) : d[k].tok = SerializedKeys[k]
  THEN [ok |-> TRUE,
        value |-> [startedAt |-> d[2].val, completedBatches |-> d[3].val,
                   failedBatches |-> d[4].val, currentBatch |-> d[5].val]]
  ELSE [ok |-> FALSE, value |-> FreshState(0)]

\* loadState() on the content of the file
LoadFromDisk(exists, d, t) ==
  IF exists THEN Parse(d) ELSE [ok |-> TRUE, value |-> FreshState(t)]

\* the driver variables the save steps leave alone
saveFrame ==
  <<manifest, retries, successCount, failureCount, startFromBatch, cmd,
    exitCode, maxRetries, attempts, invoked, saved>>

\* a driver process starts and loads the state; a SyntaxError of
\* JSON.parse is caught by the driver's outer catch, which exits
SaveProcessStarts ==
  /\ pc = "idle"
  /\ runs < MaxRuns
  /\ runs' = runs + 1
  /\ LET r == LoadFromDisk(fileExists, disk, 0)
     IN /\ readResult' = IF r.ok THEN "ok" ELSE "SyntaxError"
        /\ IF r.ok
           THEN state' = r.value /\ pc' = "loop" /\ i' = 1
           ELSE UNCHANGED <<state, pc, i>>
  /\ UNCHANGED <<fileExists, file, disk, writing, saveFrame>>
  /\ UNCHANGED <<splitVars, rlVars, importVars, concVars, itemVars, runVars, cleanVars>>

\* a batch already completed is skipped without a save
SaveSkip ==
  /\ pc = "loop"
  /\ i <= manifest.totalBatches
  /\ IsCompleted(state, BatchNum(i))
  /\ i' = i + 1
  /\ UNCHANGED <<fileExists, file, state, pc, runs, disk, writing, readResult, saveFrame>>
  /\ UNCHANGED <<splitVars, rlVars, importVars, concVars, itemVars, runVars, cleanVars>>

\* the state object is updated and saveState opens the file: the open
\* truncates it, nothing is written yet
SaveOpen ==
  /\ pc = "loop"
  /\ i <= manifest.totalBatches
  /\ ~IsCompleted(state, BatchNum(i))
  /\ \E st \in IF state.currentBatch # BatchNum(i)
               THEN {MarkCurrent(state, BatchNum(i))}
               ELSE {MarkCompleted(state, BatchNum(i)),
                     MarkFailed(state, BatchNum(i), ErrorMessage(1), 0)} :
       /\ state' = st
       /\ writing' = Serialize(st)
       /\ i' = IF state.currentBatch # BatchNum(i) THEN i ELSE i + 1
  /\ disk' = <<>>
  /\ fileExists' = TRUE
  /\ pc' = "saving"
  /\ UNCHANGED <<file, runs, readResult, saveFrame>>
  /\ UNCHANGED <<splitVars, rlVars, importVars, concVars, itemVars, runVars, cleanVars>>

\* one write of the loop in writeFileSync: the rest of the data, or a
\* part of it
SaveWrite ==
  /\ pc = "saving"
  /\ writing # <<>>
  /\ \E n \in {1, Len(writing)} :
       /\ disk' = disk \o SubSeq(writing, 1, n)
       /\ writing' = SubSeq(writing, n + 1, Len(writing))
  /\ UNCHANGED <<fileExists, file, state, pc, i, runs, readResult, saveFrame>>
  /\ UNCHANGED <<splitVars, rlVars, importVars, concVars, itemVars, runVars, cleanVars>>

\* writeFileSync returns: the file holds the new state
SaveClose ==
  /\ pc = "saving"
  /\ writing = <<>>
  /\ file' = state
  /\ pc' = "loop"
  /\ UNCHANGED <<fileExists, state, i, runs, disk, writing, readResult, saveFrame>>
  /\ UNCHANGED <<splitVars, rlVars, importVars, concVars, itemVars, runVars, cleanVars>>

\* the process is terminated (signal, crash, power loss): what has been
\* written so far stays in the file
SaveTerminated ==
  /\ pc \in {"loop", "saving"}
  /\ pc' = "idle"
  /\ writing' = <<>>
  /\ i' = 0
  /\ UNCHANGED <<fileExists, file, state, runs, disk, readResult, saveFrame>>
  /\ UNCHANGED <<splitVars, rlVars, importVars, concVars, itemVars, runVars, cleanVars>>

InitSave ==
  /\ InitDriver
  /\ manifest.exists
  /\ manifest.totalBatches = MaxBatches
  /\ maxRetries = 0
  /\ SplitOff
  /\ RLOff
  /\ ImportOff
  /\ SaveOff
  /\ ConcOff
  /\ ItemOff
  /\ RunOff
  /\ CleanOff

NextSave ==
  \/ SaveProcessStarts
  \/ SaveSkip
  \/ SaveOpen
  \/ SaveWrite
  \/ SaveClose
  \/ SaveTerminated

SpecSave == InitSave /\ [][NextSave]_vars

\* C20: when the process is terminated during saveState, the file holds
\* either the complete state saved before or the complete new state, and
\* no later loadState gets a partially written record.
C20_AtomicSave ==
  [][/\ (pc = "saving" /\ pc' = "idle")
        => /\ Parse(disk').ok
           /\ Parse(disk').value \in {file, state}
     /\ readResult' # "SyntaxError"]_vars

(***************************************************************************)
(* RateLimiter shared by callers that do not await one another             *)
(* (Promise.all over throttle calls).  JavaScript runs each caller up to   *)
(* its next await; the callers interleave at the timers of waitForToken.   *)
(* Timers fire on time and an operation takes no time.                     *)
(***************************************************************************)
MaxCallers == 2

Callers == 1..MaxCallers

\* waitForToken(hourBucket) at time t, up to its await or to the call of fn
AtHourBucket(r, t) ==
  LET hb == RefillBucket(r.hourBucket, t) IN
    IF NeedsWait(hb)
      THEN [rl |-> [r EXCEPT !.hourBucket = hb,
                             !.stats = CountWait(@, WaitTime(hb))],
            pos |-> "wait_hour", wake |-> t + WaitTime(hb)]
      ELSE [rl |-> [r EXCEPT !.hourBucket = Consume(hb),
                             !.stats.totalRequests = @ + 1],
            pos |-> "exec", wake |-> t]

\* waitForToken(secondBucket) at time t, up to its await, and what follows
\* it when there is no wait
AtSecondBucket(r, t) ==
  LET sb == RefillBucket(r.secondBucket, t) IN
    IF NeedsWait(sb)
      THEN [rl |-> [r EXCEPT !.secondBucket = sb,
                             !.stats = CountWait(@, WaitTime(sb))],
            pos |-> "wait_second", wake |-> t + WaitTime(sb)]
      ELSE AtHourBucket([r EXCEPT !.secondBucket = Consume(sb)], t)

\* the caller moves on inside throttle
CallerMoves(p, next) ==
  /\ rl' = next.rl
  /\ cpc' = [cpc EXCEPT ![p] = next.pos]
  /\ wake' = [wake EXCEPT ![p] = next.wake]
  /\ opsStarted' = IF next.pos = "exec" THEN opsStarted + 1 ELSE opsStarted

\* caller p calls throttle(fn)
ConcStart(p) ==
  /\ cpc[p] = "idle"
  /\ calls < MaxCalls
  /\ calls' = calls + 1
  /\ CallerMoves(p, AtSecondBucket(rl, clock))
  /\ UNCHANGED <<rpc, clock, firstAdmit, lastAdmit, last429, outcome>>
  /\ UNCHANGED <<driverVars, splitVars, importVars, saveVars, itemVars, runVars, cleanVars>>

\* the timer of caller p's waitForToken(secondBucket) has fired: refill,
\* take the token, go on to the hour bucket
ConcWakeSecond(p) ==
  /\ cpc[p] = "wait_second"
  /\ wake[p] <= clock
  /\ CallerMoves(p, AtHourBucket(
         [rl EXCEPT !.secondBucket = Consume(RefillBucket(rl.secondBucket, clock))],
         clock))
  /\ UNCHANGED <<rpc, clock, firstAdmit, lastAdmit, last429, calls, outcome>>
  /\ UNCHANGED <<driverVars, splitVars, importVars, saveVars, itemVars, runVars, cleanVars>>

\* the timer of caller p's waitForToken(hourBucket) has fired: refill, take
\* the token, call fn
ConcWakeHour(p) ==
  /\ cpc[p] = "wait_hour"
  /\ wake[p] <= clock
  /\ CallerMoves(p,
       [rl |-> [rl EXCEPT !.hourBucket = Consume(RefillBucket(rl.hourBucket, clock)),
                          !.stats.totalRequests = @ + 1],
        pos |-> "exec", wake |-> clock])
  /\ UNCHANGED <<rpc, clock, firstAdmit, lastAdmit, last429, calls, outcome>>
  /\ UNCHANGED <<driverVars, splitVars, importVars, saveVars, itemVars, runVars, cleanVars>>

\* caller p's operation resolves and throttle returns
ConcReturns(p) ==
  /\ cpc[p] = "exec"
  /\ cpc' = [cpc EXCEPT ![p] = "idle"]
  /\ UNCHANGED <<wake, rlVars, runVars, cleanVars>>
  /\ UNCHANGED <<driverVars, splitVars, importVars, saveVars, itemVars, runVars, cleanVars>>

\* the callers that wait on a timer
Waiting == {p \in Callers : cpc[p] \in {"wait_second", "wait_hour"}}

\* time passes up to the next timer; no timer is due and no caller runs
ConcTick ==
  /\ Waiting # {}
  /\ \A p \in Callers : cpc[p] # "exec"
  /\ \A p \in Waiting : wake[p] > clock
  /\ \E p \in Waiting :
       /\ \A q \in Waiting : wake[p] <= wake[q]
       /\ clock' = wake[p]
  /\ UNCHANGED <<rl, rpc, opsStarted, firstAdmit, lastAdmit, last429, calls, outcome>>
  /\ UNCHANGED <<cpc, wake>>
  /\ UNCHANGED <<driverVars, splitVars, importVars, saveVars, itemVars, runVars, cleanVars>>

InitConc ==
  /\ \E rps \in 1..MaxRPS, rph \in 1..HourBudget :
       rl = NewRateLimiter(rps, rph, 0)
  /\ cpc = [p \in Callers |-> "idle"]
  /\ wake = [p \in Callers |-> 0]
  /\ rpc = "off"
  /\ clock = 0
  /\ opsStarted = 0
  /\ firstAdmit = -1
  /\ lastAdmit = -1
  /\ last429 = -1
  /\ calls = 0
  /\ outcome = "none"
  /\ DriverOff
  /\ SplitOff
  /\ ImportOff
  /\ SaveOff
  /\ ItemOff
  /\ RunOff
  /\ CleanOff

NextConc ==
  \/ \E p \in Callers : ConcStart(p)
  \/ \E p \in Callers : ConcWakeSecond(p)
  \/ \E p \in Callers : ConcWakeHour(p)
  \/ \E p \in Callers : ConcReturns(p)
  \/ ConcTick

SpecConc == InitConc /\ [][NextConc]_vars

\* C34 (as claimed): with several throttle calls pending at once, the token
\* count of neither bucket becomes negative.
C34_NoNegativeTokens ==
  /\ rl.secondBucket.tokens >= 0
  /\ rl.hourBucket.tokens >= 0

(***************************************************************************)
(* The remote calls importBatch makes for one content type, one asset or   *)
(* one entry (bin/import.js), under every setting of the import options.   *)
(* Each step is one remote call, which resolves or rejects.                *)
(***************************************************************************)
\* const maxAttempts = 30
MaxAttempts == 30

\* importOptions, the flags importBatch reads
ImportOptions ==
  [uploadAssets : BOOLEAN, skipContentPublishing : BOOLEAN,
   skipAssetUpdates : BOOLEAN, skipContentUpdates : BOOLEAN]

\* a remote call and the part of the loop body that makes it
Call(name, phase) == [call |-> name, phase |-> phase]

\* mutant: publishing is taken to be enabled
PublishingOnAlways(o) ==
  TRUE

\* !importOptions.skipContentPublishing
PublishingOn(o) ==
  ~o.skipContentPublishing

\* mutant: the asset is published whether or not a poll found it processed
AssetMayPublishUnprocessed(o, done) ==
  PublishingOn(o)

\* if (!importOptions.skipContentPublishing && fullyProcessed)
AssetMayPublish(o, done) ==
  PublishingOn(o) /\ done

\* while (attempts < maxAttempts && !fullyProcessed)
PollAgain(n, done) ==
  n < MaxAttempts /\ ~done

\* the item is looked up before it is created:
\* importOptions.skipAssetUpdates / skipContentUpdates
LookupFirst(k, o) ==
  \/ k = "asset" /\ o.skipAssetUpdates
  \/ k = "entry" /\ o.skipContentUpdates

\* the name of the call that looks the item up, and of the one that creates it
LookupCall(k) == IF k = "asset" THEN "getAsset" ELSE "getEntry"

CreateCall(k) ==
  CASE k = "contentType" -> "createContentTypeWithId"
    [] k = "asset"       -> "createAssetWithId"
    [] k = "entry"       -> "createEntryWithId"

\* where the loop body goes once the item exists
AfterCreate(k, o) ==
  CASE k = "contentType" -> IF PublishingOn(o) THEN "publish" ELSE "imported"
    [] k = "asset"       -> IF o.uploadAssets THEN "process" ELSE "imported"
    [] k = "entry"       -> IF PublishingOn(o) THEN "publish" ELSE "imported"

\* where the asset's loop body goes after a poll, or after processing began
AfterPoll(o, n, done) ==
  IF PollAgain(n, done) THEN "poll"
  ELSE IF AssetMayPublish(o, done) THEN "publishFetch"
  ELSE "imported"

\* the first call for the item: the lookup, or the creation
ItemCreate ==
  /\ ipc = "create"
  /\ IF LookupFirst(itemKind, opts)
       THEN /\ trace' = Append(trace, Call(LookupCall(itemKind), "create"))
            /\ \E ok \in BOOLEAN :
                 ipc' = IF ok THEN AfterCreate(itemKind, opts) ELSE "createFallback"
       ELSE /\ trace' = Append(trace, Call(CreateCall(itemKind), "create"))
            /\ \E ok \in BOOLEAN :
                 ipc' = IF ok THEN AfterCreate(itemKind, opts) ELSE "failed"
  /\ UNCHANGED <<opts, itemKind, pollAttempts, fullyProcessed>>
  /\ UNCHANGED <<driverVars, splitVars, rlVars, importVars, saveVars, concVars, runVars,
                 cleanVars>>

\* the lookup rejected: the item is created
ItemCreateFallback ==
  /\ ipc = "createFallback"
  /\ trace' = Append(trace, Call(CreateCall(itemKind), "create"))
  /\ \E ok \in BOOLEAN :
       ipc' = IF ok THEN AfterCreate(itemKind, opts) ELSE "failed"
  /\ UNCHANGED <<opts, itemKind, pollAttempts, fullyProcessed>>
  /\ UNCHANGED <<driverVars, splitVars, rlVars, importVars, saveVars, concVars, runVars,
                 cleanVars>>

\* newAsset.processForAllLocales()
AssetProcess ==
  /\ ipc = "process"
  /\ trace' = Append(trace, Call("processForAllLocales", "process"))
  /\ \E ok \in BOOLEAN :
       ipc' = IF ok THEN AfterPoll(opts, 0, FALSE) ELSE "failed"
  /\ UNCHANGED <<opts, itemKind, pollAttempts, fullyProcessed>>
  /\ UNCHANGED <<driverVars, splitVars, rlVars, importVars, saveVars, concVars, runVars,
                 cleanVars>>

\* one pass of the polling loop: sleep, getAsset, look at the files' urls
AssetPoll ==
  /\ ipc = "poll"
  /\ trace' = Append(trace, Call("getAsset", "poll"))
  /\ \/ /\ ipc' = "failed"
        /\ UNCHANGED <<pollAttempts, fullyProcessed>>
     \/ /\ fullyProcessed' \in BOOLEAN
        /\ pollAttempts' = pollAttempts + 1
        /\ ipc' = AfterPoll(opts, pollAttempts', fullyProcessed')
  /\ UNCHANGED <<opts, itemKind>>
  /\ UNCHANGED <<driverVars, splitVars, rlVars, importVars, saveVars, concVars, runVars,
                 cleanVars>>

\* throttledPublish of an asset, first call: environment.getAsset
AssetPublishFetch ==
  /\ ipc = "publishFetch"
  /\ trace' = Append(trace, Call("getAsset", "publish"))
  /\ \E ok \in BOOLEAN : ipc' = IF ok THEN "publish" ELSE "failed"
  /\ UNCHANGED <<opts, itemKind, pollAttempts, fullyProcessed>>
  /\ UNCHANGED <<driverVars, splitVars, rlVars, importVars, saveVars, concVars, runVars,
                 cleanVars>>

\* ct.publish(), assetToPublish.publish() or newEntry.publish()
ItemPublish ==
  /\ ipc = "publish"
  /\ trace' = Append(trace, Call("publish", "publish"))
  /\ \E ok \in BOOLEAN : ipc' = IF ok THEN "imported" ELSE "failed"
  /\ UNCHANGED <<opts, itemKind, pollAttempts, fullyProcessed>>
  /\ UNCHANGED <<driverVars, splitVars, rlVars, importVars, saveVars, concVars, runVars,
                 cleanVars>>

InitItem ==
  /\ ipc = "create"
  /\ opts \in ImportOptions
  /\ itemKind \in {"contentType", "asset", "entry"}
  /\ trace = <<>>
  /\ pollAttempts = 0
  /\ fullyProcessed = FALSE
  /\ DriverOff
  /\ SplitOff
  /\ RLOff
  /\ ImportOff
  /\ SaveOff
  /\ ConcOff
  /\ RunOff
  /\ CleanOff

NextItem ==
  \/ ItemCreate
  \/ ItemCreateFallback
  \/ AssetProcess
  \/ AssetPoll
  \/ AssetPublishFetch
  \/ ItemPublish

SpecItem == InitItem /\ [][NextItem]_vars

\* the position of a part of the asset's loop body in the order of the code
PhaseRank(ph) ==
  CASE ph = "create"  -> 1
    [] ph = "process" -> 2
    [] ph = "poll"    -> 3
    [] ph = "publish" -> 4

CallsIn(ph) == {n \in 1..Len(trace) : trace[n].phase = ph}

PublishCalls == {n \in 1..Len(trace) : trace[n].call = "publish"}

\* C35: for an asset with upload enabled the calls are made in the order
\* create or fetch, processForAllLocales, status polls, publish; at most 30
\* status polls are made; a publish call is made only after a poll saw a url
\* on every file and publishing is enabled; after 30 polls without that the
\* asset counts as imported with no publish call.
C35_AssetPipeline ==
  (itemKind = "asset" /\ opts.uploadAssets) =>
    /\ \A m, n \in 1..Len(trace) :
         m < n => PhaseRank(trace[m].phase) <= PhaseRank(trace[n].phase)
    /\ Cardinality(CallsIn("process")) <= 1
    /\ Cardinality(CallsIn("poll")) <= MaxAttempts
    /\ CallsIn("publish") # {} =>
         /\ fullyProcessed
         /\ ~opts.skipContentPublishing
         /\ CallsIn("poll") # {}
         /\ CallsIn("process") # {}
    /\ (pollAttempts = MaxAttempts /\ ~fullyProcessed /\ ipc # "poll") =>
         /\ ipc = "imported"
         /\ CallsIn("publish") = {}

\* an asset whose thirtieth poll found it processed has been published
C35_Witness ==
  /\ itemKind = "asset"
  /\ opts.uploadAssets
  /\ pollAttempts = MaxAttempts
  /\ fullyProcessed
  /\ ipc = "imported"
  /\ PublishCalls # {}

\* C37: with skipContentPublishing set no publish call is made for a content
\* type, an asset or an entry; without it an entry that was created or
\* fetched gets exactly one publish call.
C37_PublishingSwitch ==
  /\ opts.skipContentPublishing =>
       /\ PublishCalls = {}
       /\ CallsIn("publish") = {}
  /\ (itemKind = "entry" /\ ~opts.skipContentPublishing) =>
       /\ Cardinality(PublishCalls) <= 1
       /\ ipc = "imported" => Cardinality(PublishCalls) = 1
       /\ (ipc = "failed" /\ PublishCalls = {}) =>
            trace[Len(trace)].call = CreateCall("entry")

\* an entry fetched under skipContentUpdates is imported with publishing
\* disabled
C37_Witness ==
  /\ itemKind = "entry"
  /\ opts.skipContentPublishing
  /\ opts.skipContentUpdates
  /\ ipc = "imported"
  /\ Len(trace) = 1
  /\ trace[1].call = "getEntry"

(***************************************************************************)
(* One import run step by step (bin/import.js): the for loop and the       *)
(* while loop of importAllBatches, the backoff sleep, and inside           *)
(* importBatch the connection and the calls made for one item.  The run    *)
(* is not interrupted; every remote call resolves or rejects and every     *)
(* sleep ends, which is what the weak fairness of RunStep says.            *)
(***************************************************************************)
\* a pass of the while loop begins: if (retries > 0) the backoff sleep comes
\* first; 'let retries = 0' starts a new batch
RunPass ==
  /\ pc = "attempt"
  /\ lpc = "off"
  /\ lpc' = IF retries > 0 THEN "backoff" ELSE "call"
  /\ sleeps' = IF retries = 0 THEN <<>> ELSE sleeps
  /\ UNCHANGED <<driverVars, splitVars, rlVars, importVars, saveVars, concVars, itemVars,
                 cleanVars>>

\* await sleep(importOptions.retryDelay * retries)
RunBackoff ==
  /\ lpc = "backoff"
  /\ sleeps' = Append(sleeps, BackoffDelay(retries))
  /\ lpc' = "call"
  /\ UNCHANGED <<driverVars, splitVars, rlVars, importVars, saveVars, concVars, itemVars,
                 cleanVars>>

\* importBatch is called; getSpace and getEnvironment resolve and the body
\* of an item loop is entered
RunConnects ==
  /\ lpc = "call"
  /\ lpc' = "items"
  /\ ipc' = "create"
  /\ itemKind' \in {"contentType", "asset", "entry"}
  /\ trace' = <<>>
  /\ pollAttempts' = 0
  /\ fullyProcessed' = FALSE
  /\ UNCHANGED <<opts, sleeps>>
  /\ UNCHANGED <<driverVars, splitVars, rlVars, importVars, saveVars, concVars, cleanVars>>

\* importBatch is called; getSpace or getEnvironment rejects and it throws
RunConnectFails ==
  /\ lpc = "call"
  /\ lpc' = "off"
  /\ AttemptThrows
  /\ UNCHANGED sleeps
  /\ UNCHANGED <<splitVars, rlVars, importVars, saveVars, concVars, itemVars, cleanVars>>

\* the item is left behind
ItemLeft ==
  /\ ipc' = "off"
  /\ itemKind' = "none"
  /\ trace' = <<>>
  /\ pollAttempts' = 0
  /\ fullyProcessed' = FALSE
  /\ UNCHANGED opts

\* the item was imported, or its error was logged and dropped: importBatch
\* returns
RunBatchReturns ==
  /\ lpc = "items"
  /\ ipc \in {"imported", "failed"}
  /\ ~(ipc = "failed" /\ Rethrows(itemKind))
  /\ lpc' = "off"
  /\ AttemptReturns
  /\ ItemLeft
  /\ UNCHANGED sleeps
  /\ UNCHANGED <<splitVars, rlVars, importVars, saveVars, concVars, cleanVars>>

\* the error of the item is thrown again: importBatch throws
RunBatchThrows ==
  /\ lpc = "items"
  /\ ipc = "failed"
  /\ Rethrows(itemKind)
  /\ lpc' = "off"
  /\ AttemptThrows
  /\ ItemLeft
  /\ UNCHANGED sleeps
  /\ UNCHANGED <<splitVars, rlVars, importVars, saveVars, concVars, cleanVars>>

\* npm run import [--start-from n], the one run that is followed
RunStart ==
  /\ runs = 0
  /\ StartImport

\* the state files an earlier run may have left: none, or one that records
\* the first batches as completed
EarlierFiles ==
  {[exists |-> FALSE, content |-> FreshState(0)]}
    \cup {[exists |-> TRUE,
           content |-> [FreshState(0) EXCEPT
                          !.completedBatches = [k \in 1..n |-> BatchNum(k)]]] :
            n \in 1..MaxBatches}

\* a manifest is there and no run was started yet
InitRun ==
  /\ manifest \in {[exists |-> TRUE, totalBatches |-> t] : t \in 0..MaxBatches}
  /\ \E f \in EarlierFiles :
       /\ Len(f.content.completedBatches) <= manifest.totalBatches
       /\ fileExists = f.exists
       /\ file = f.content
  /\ state = FreshState(0)
  /\ pc = "idle"
  /\ i = 0
  /\ retries = 0
  /\ successCount = 0
  /\ failureCount = 0
  /\ startFromBatch = 0
  /\ cmd = "none"
  /\ exitCode = -1
  /\ maxRetries \in 0..MaxRetriesBound
  /\ runs = 0
  /\ attempts = 0
  /\ invoked = FALSE
  /\ saved = FALSE
  /\ ipc = "off"
  /\ opts \in ImportOptions
  /\ itemKind = "none"
  /\ trace = <<>>
  /\ pollAttempts = 0
  /\ fullyProcessed = FALSE
  /\ lpc = "off"
  /\ sleeps = <<>>
  /\ SplitOff
  /\ RLOff
  /\ ImportOff
  /\ SaveOff
  /\ ConcOff
  /\ CleanOff

\* the steps of a run once it was started
RunStep ==
  \/ Skip
  \/ BeginBatch
  \/ RunPass
  \/ RunBackoff
  \/ RunConnects
  \/ RunConnectFails
  \/ ItemCreate
  \/ ItemCreateFallback
  \/ AssetProcess
  \/ AssetPoll
  \/ AssetPublishFetch
  \/ ItemPublish
  \/ RunBatchReturns
  \/ RunBatchThrows
  \/ Delay
  \/ LoopEnd
  \/ Exit

NextRun ==
  \/ RunStart
  \/ RunStep

SpecRun == InitRun /\ [][NextRun]_vars /\ WF_vars(RunStep)

ArrayOf(items) == [kind |-> "array", items |-> items]

\* !x.sys.publishedVersion || (x.sys.version > x.sys.publishedVersion + 1)
IsDraft(x) ==
  x.publishedVersion = 0 \/ x.version > x.publishedVersion + 1

\* contentTypeRequirements.get(id): whether it is there, and its required fields
ContentTypeInfo(data, id) ==
  LET found == {k \in 1..Len(data.contentTypes) : data.contentTypes[k].id = id} IN
    IF found = {} THEN [known |-> FALSE, requiredFields |-> {}]
    ELSE [known |-> TRUE,
          requiredFields |->
            LET ct == data.contentTypes[Max(found)] IN
              {ct.fields[k].id : k \in {n \in 1..Len(ct.fields) : ct.fields[n].required}}]

\* the required fields the entry has no value for
MissingFields(entry, requiredFields) ==
  {f \in requiredFields :
     f \notin DOMAIN entry.fields \/ DOMAIN entry.fields[f] = {}}

\* the ids in orphanDrafts
OrphanDrafts(data) ==
  {data.entries[k].id : k \in {n \in 1..Len(data.entries) :
     /\ IsDraft(data.entries[n])
     /\ ~ContentTypeInfo(data, data.entries[n].contentType).known}}

\* the ids in invalidDrafts
InvalidDrafts(data) ==
  {data.entries[k].id : k \in {n \in 1..Len(data.entries) :
     LET info == ContentTypeInfo(data, data.entries[n].contentType) IN
       /\ IsDraft(data.entries[n])
       /\ info.known
       /\ MissingFields(data.entries[n], info.requiredFields) # {}}}

\* the ids in invalidAssetDrafts: drafts without a file
InvalidAssetDrafts(data) ==
  {data.assets[k].id : k \in {n \in 1..Len(data.assets) :
     IsDraft(data.assets[n]) /\ ~data.assets[n].hasFile}}

EntriesToRemove(data) == InvalidDrafts(data) \cup OrphanDrafts(data)

AssetsToRemove(data) == InvalidAssetDrafts(data)

\* value.sys.type === 'Link' and the item it points to was removed
LinkToRemoved(value, entriesGone, assetsGone) ==
  /\ value.kind = "link"
  /\ \/ value.linkType = "Entry" /\ value.id \in entriesGone
     \/ value.linkType = "Asset" /\ value.id \in assetsGone

\* value.filter(item => ...) of the 'Array of Links' branch
FilterLinks(items, entriesGone, assetsGone) ==
  LET Kept(item) == ~LinkToRemoved(item, entriesGone, assetsGone) IN
    SelectSeq(items, Kept)

\* the body of Object.keys(field).forEach(locale => ...): the field after it
CleanField(field, entriesGone, assetsGone) ==
  [l \in {x \in DOMAIN field : ~LinkToRemoved(field[x], entriesGone, assetsGone)} |->
     IF field[l].kind = "array"
       THEN ArrayOf(FilterLinks(field[l].items, entriesGone, assetsGone))
       ELSE field[l]]

\* the body of cleanedData.entries.forEach(entry => ...): the entry after it
CleanEntry(entry, entriesGone, assetsGone) ==
  [entry EXCEPT !.fields =
     [f \in DOMAIN entry.fields |-> CleanField(entry.fields[f], entriesGone, assetsGone)]]

\* the script reads the export, classifies its entries and assets and
\* filters out those to remove
CleanFilter ==
  /\ clpc = "read"
  /\ cleanedData' =
       [exportData EXCEPT
          !.entries = Filter(exportData.entries,
                             {k \in 1..Len(exportData.entries) :
                                exportData.entries[k].id \notin EntriesToRemove(exportData)}, 1),
          !.assets = Filter(exportData.assets,
                            {k \in 1..Len(exportData.assets) :
                               exportData.assets[k].id \notin AssetsToRemove(exportData)}, 1)]
  /\ clpc' = "filtered"
  /\ UNCHANGED <<driverVars, splitVars, rlVars, importVars, saveVars, concVars, itemVars,
                 runVars>>

\* the references to removed items are taken out of the remaining entries
\* and the cleaned export is written
CleanLinks ==
  /\ clpc = "filtered"
  /\ cleanedData' =
       [cleanedData EXCEPT
          !.entries = [k \in 1..Len(cleanedData.entries) |->
                         CleanEntry(cleanedData.entries[k], EntriesToRemove(exportData),
                                    AssetsToRemove(exportData))]]
  /\ clpc' = "written"
  /\ UNCHANGED <<driverVars, splitVars, rlVars, importVars, saveVars, concVars, itemVars,
                 runVars>>

\* the values a field may hold for its locale: a scalar, a link, an array of
\* links, or an object that holds a link (an embedded entry of a rich text)
FieldValues(ids) ==
  LET links == {EntryLink(e) : e \in ids} \cup {AssetLink(1)} IN
    {Scalar} \cup links \cup {ArrayOf(<<x>>) : x \in links}
      \cup {Container(<<x>>) : x \in links}

\* the fields of an entry: no field, an empty field, or one field with a value
EntryFields(ids) ==
  {<<>>} \cup {[f \in {"body"} |-> <<>>]}
    \cup {[f \in {"body"} |-> [l \in {"en"} |-> v]] : v \in FieldValues(ids)}

\* an entry that was published (version 2, published 1) or never was
CleanEntries(id, ids) ==
  {[id |-> id, version |-> pv + 1, publishedVersion |-> pv, contentType |-> ct,
    fields |-> fs] : pv \in 0..1, ct \in {"page", "gone"}, fs \in EntryFields(ids)}

\* no asset, or one that is published, a draft with its file, or a draft
\* without one
CleanAssets ==
  {<<>>} \cup {<<[id |-> 1, version |-> pv + 1, publishedVersion |-> pv,
                 hasFile |-> hf]>> : pv \in 0..1, hf \in BOOLEAN}

InitClean ==
  /\ clpc = "read"
  /\ cleanedData = <<>>
  /\ \E n \in 1..MaxEntries, req \in BOOLEAN, as \in CleanAssets :
       \E es \in [1..n -> UNION {CleanEntries(id, 1..n) : id \in 1..n}] :
         /\ \A k \in 1..n : es[k].id = k
         /\ exportData =
              [contentTypes |-> <<[id |-> "page",
                                   fields |-> <<[id |-> "body", required |-> req]>>]>>,
               entries |-> es,
               assets |-> as]
  /\ spc = "off"
  /\ batchSize = 0
  /\ batchIndex = 0
  /\ processedEntries = {}
  /\ outBatches = <<>>
  /\ outManifest = <<>>
  /\ DriverOff
  /\ RLOff
  /\ ImportOff
  /\ SaveOff
  /\ ConcOff
  /\ ItemOff
  /\ RunOff

NextClean ==
  \/ CleanFilter
  \/ CleanLinks

SpecClean == InitClean /\ [][NextClean]_vars

(***************************************************************************)
(* Properties of cleanup-drafts (SpecClean)                                *)
(***************************************************************************)
\* the links in a value, at any depth
RECURSIVE LinksIn(_)
LinksIn(value) ==
  IF value.kind = "link" THEN {value}
  ELSE IF value.kind \in {"array", "container"}
    THEN UNION {LinksIn(value.items[k]) : k \in 1..Len(value.items)}
  ELSE {}

\* the links in the fields of an entry, at any depth
LinksOfEntry(entry) ==
  UNION {LinksIn(entry.fields[f][l]) :
           f \in DOMAIN entry.fields, l \in UNION {DOMAIN entry.fields[g] : g \in DOMAIN entry.fields}}

\* C40 (as claimed): in the cleaned export no remaining entry holds, at any
\* depth of its fields, a link to an entry or an asset that was removed.
C40_NoLinkToRemoved ==
  clpc = "written"
  => \A k \in 1..Len(cleanedData.entries) :
       \A link \in LinksOfEntry(cleanedData.entries[k]) :
         ~LinkToRemoved(link, EntriesToRemove(exportData), AssetsToRemove(exportData))

====
